---- MODULE Spec2Model ----
(***************************************************************************)
(* A model of the syslog RFC 5424 decoder.                                 *)
(*                                                                         *)
(*   rfc5424::parse_message        src/src/rfc5424.rs                      *)
(*   rfc5424::parse_timestamp      src/src/rfc5424.rs                      *)
(*   timestamp::parse_timestamp_rfc3339   src/src/timestamp.rs             *)
(*   PartialEq for StructuredElement      src/src/structured_data.rs       *)
(*   convert_2_digits, convert_4_digits   src/src/rfc5424.rs               *)
(*                                                                         *)
(* A buffer is a sequence of byte values 0..255.  Rust indexes from 0, so  *)
(* the byte buf[i] of the source is At(buf, i) here.  Every index and      *)
(* slice of the source is bounds-checked by the language: an index at or   *)
(* past the end is the outcome "panic", which is neither Ok nor Err.       *)
(* u16::from_ne_bytes / u32::from_ne_bytes are modelled for a little-endian*)
(* target, the one the repository's own tests of convert_2_digits assume.  *)
(***************************************************************************)
EXTENDS Integers, Sequences, FiniteSets, TLC

VARIABLES
    call,       \* which entry point this run is a call of
    build,      \* "debug" (overflow checks on) or "release" (wrapping arithmetic)
    buf,        \* the input buffer
    offset,     \* the cursor (parse_message's local `offset`)
    mark,       \* the cursor when the field last parsed began
    pc,         \* the field parse_message (or the stage the timestamp parser) is at
    outcome,    \* "running", "ok", "err" or "panic"
    error,      \* the Error value returned, <<>> while there is none
    message     \* the fields decoded so far (of a comparison: its operands,
                \* locals and result)

vars == <<call, build, buf, offset, mark, pc, outcome, error, message>>

(***************************************************************************)
(* Bytes                                                                   *)
(***************************************************************************)

\* The printable ASCII characters in code order, starting at 32 (space).
AsciiTable ==
    << " ", "!", "\"", "#", "$", "%", "&", "'", "(", ")", "*", "+", ",", "-", ".", "/",
       "0", "1", "2", "3", "4", "5", "6", "7", "8", "9", ":", ";", "<", "=", ">", "?",
       "@", "A", "B", "C", "D", "E", "F", "G", "H", "I", "J", "K", "L", "M", "N", "O",
       "P", "Q", "R", "S", "T", "U", "V", "W", "X", "Y", "Z", "[", "\\", "]", "^", "_",
       "grave", "a", "b", "c", "d", "e", "f", "g", "h", "i", "j", "k", "l", "m", "n", "o",
       "p", "q", "r", "s", "t", "u", "v", "w", "x", "y", "z", "{", "|", "}", "~" >>

\* The byte value of a character literal such as b'<'.
Ord == [c \in {AsciiTable[i] : i \in 1..Len(AsciiTable)} |->
            31 + (CHOOSE i \in 1..Len(AsciiTable) : AsciiTable[i] = c)]

\* A byte string literal, written one character per element.
Bytes(cs) == [i \in 1..Len(cs) |-> Ord[cs[i]]]

\* buf[i]
At(b, i) == b[i + 1]

\* &buf[i..j]
Slice(b, i, j) == SubSeq(b, i + 1, j)

\* u8::is_ascii_digit
is_ascii_digit(ch) == ch >= Ord["0"] /\ ch <= Ord["9"]

Min(a, b) == IF a < b THEN a ELSE b

\* 10u32.pow(n)
RECURSIVE Pow10(_)
Pow10(n) == IF n = 0 THEN 1 ELSE 10 * Pow10(n - 1)

(***************************************************************************)
(* Results.  A sub-parser returns how it ended, the cursor it left, and    *)
(* its value.                                                              *)
(***************************************************************************)

None == <<>>
Some(v) == <<v>>

Err(name) == <<name>>
ErrChar(name, ch) == <<name, ch>>

Ok(off, v) == [kind |-> "ok", err |-> <<>>, offset |-> off, val |-> v]
Fail(e, off) == [kind |-> "err", err |-> e, offset |-> off, val |-> None]
Panic(off) == [kind |-> "panic", err |-> <<>>, offset |-> off, val |-> None]

(***************************************************************************)
(* rfc5424.rs: the digit decoders                                          *)
(***************************************************************************)

\* Two ASCII bytes as a little-endian u16; the low nibble of the first byte
\* is the tens, the low nibble of the second the units.
convert_2_digits(digits) ==
    LET chunk == digits[1] + 256 * digits[2]
        lower == (chunk \div 256) % 16          \* (chunk & 0x0f00) >> 8
        upper == (chunk % 16) * 10              \* (chunk & 0x000f) * 10
    IN  lower + upper

\* A second mask 0x000f0000 in place of 0x00ff0000
convert_4_digits_narrow_mask(digits) ==
    LET masked_lower == 256 * (digits[2] % 16) + 16777216 * (digits[4] % 16)
        masked_upper == (digits[1] % 16) + 65536 * (digits[3] % 16)
        chunk == (masked_lower \div 256) + masked_upper * 10
    IN  ((chunk \div 65536) % 16) + (chunk % 256) * 100

\* Four ASCII bytes as a little-endian u32.  A mask of the source is taken
\* byte by byte (the u32 itself can exceed the integers at hand); the sums
\* and the shifts are those of the source, on the whole word.
convert_4_digits(digits) ==
    LET \* chunk & 0x0f000f00 and chunk & 0x000f000f
        masked_lower == 256 * (digits[2] % 16) + 16777216 * (digits[4] % 16)
        masked_upper == (digits[1] % 16) + 65536 * (digits[3] % 16)
        lower1 == masked_lower \div 256             \* >> 8
        upper1 == masked_upper * 10
        chunk == lower1 + upper1
        lower == (chunk \div 65536) % 256           \* (chunk & 0x00ff0000) >> 16
        upper == (chunk % 256) * 100                \* (chunk & 0x000000ff) * 100
    IN  lower + upper

(***************************************************************************)
(* chrono, as rfc5424.rs and timestamp.rs call it                          *)
(***************************************************************************)

\* The days of a month of the proleptic Gregorian calendar (NaiveDate).
chrono_days_in_month(year, month) ==
    IF month \in {1, 3, 5, 7, 8, 10, 12} THEN 31
    ELSE IF month \in {4, 6, 9, 11} THEN 30
    ELSE IF year % 4 = 0 /\ (year % 100 # 0 \/ year % 400 = 0) THEN 29
    ELSE 28
\* Every month with 31 days
from_ymd_opt_any_day(year, month, day) ==
    /\ month >= 1 /\ month <= 12
    /\ day >= 1 /\ day <= 31

\* NaiveDate::from_ymd_opt(year, month, day).is_some(), for the years a
\* four-nibble decode can produce (all inside chrono's year range).
from_ymd_opt(year, month, day) ==
    /\ month >= 1 /\ month <= 12
    /\ day >= 1 /\ day <= chrono_days_in_month(year, month)

\* NaiveDate::and_hms_nano_opt(hour, minute, second, nanos).is_some()
and_hms_nano_opt(hour, minute, second, nanos) ==
    /\ hour < 24 /\ minute < 60 /\ second < 60
    /\ ~(nanos >= 1000000000 /\ second # 59)
    /\ nanos < 2000000000

\* FixedOffset::east_opt(secs).is_some()
east_opt(secs) == secs > -86400 /\ secs < 86400

(***************************************************************************)
(* rfc5424.rs: to_datetime and parse_timestamp                             *)
(***************************************************************************)

\* NaiveDate::succ_opt and NaiveDate::pred_opt
succ_opt(year, month, day) ==
    IF day < chrono_days_in_month(year, month) THEN <<year, month, day + 1>>
    ELSE IF month < 12 THEN <<year, month + 1, 1>>
    ELSE <<year + 1, 1, 1>>

pred_opt(year, month, day) ==
    IF day > 1 THEN <<year, month, day - 1>>
    ELSE IF month > 1 THEN <<year, month - 1, chrono_days_in_month(year, month - 1)>>
    ELSE <<year - 1, 12, 31>>

\* A NaiveDateTime: the date and the second of its day
NaiveDateTime(date, secs, nanos) ==
    [year |-> date[1], month |-> date[2], day |-> date[3],
     hour |-> secs \div 3600, minute |-> (secs % 3600) \div 60,
     second |-> secs % 60, nanos |-> nanos]
\* The offset added to the local time
from_local_offset_added(year, month, day, hour, minute, second, nanos, off) ==
    LET secs == hour * 3600 + minute * 60 + second + off IN
    IF secs < 0 THEN NaiveDateTime(pred_opt(year, month, day), secs + 86400, nanos)
    ELSE IF secs >= 86400
         THEN NaiveDateTime(succ_opt(year, month, day), secs - 86400, nanos)
    ELSE NaiveDateTime(<<year, month, day>>, secs, nanos)

\* DateTime::from_local(datetime, offset): the UTC date and time the value
\* holds, the local one less the offset.  The offset is under a day either
\* way, so the date moves by one day at most.
from_local(year, month, day, hour, minute, second, nanos, off) ==
    LET secs == hour * 3600 + minute * 60 + second - off IN
    IF secs < 0 THEN NaiveDateTime(pred_opt(year, month, day), secs + 86400, nanos)
    ELSE IF secs >= 86400
         THEN NaiveDateTime(succ_opt(year, month, day), secs - 86400, nanos)
    ELSE NaiveDateTime(<<year, month, day>>, secs, nanos)

\* A DateTime<FixedOffset>: the local fields it was built from, its offset,
\* and the instant `utc` that DateTime's == compares
DateTime(year, month, day, hour, minute, second, nanos, off) ==
    [year |-> year, month |-> month, day |-> day, hour |-> hour,
     minute |-> minute, second |-> second, nanos |-> nanos, offset |-> off,
     utc |-> from_local(year, month, day, hour, minute, second, nanos, off)]

\* to_datetime at cursor `at`
to_datetime(at, year, month, day, hour, minute, second, nanos, off) ==
    IF ~east_opt(off) THEN Fail(Err("OutOfRangeTimezone"), at)
    ELSE IF ~from_ymd_opt(year, month, day) THEN Fail(Err("InvalidTimestamp"), at)
    ELSE IF ~and_hms_nano_opt(hour, minute, second, nanos)
         THEN Fail(Err("InvalidTimestamp"), at)
    ELSE Ok(at, DateTime(year, month, day, hour, minute, second, nanos, off))

\* The fraction loop: `for ch in &buf[*offset..end]`, from byte `pos`.
\* Returns <<count, nanos>>.
RECURSIVE fraction_loop(_, _, _, _, _)
fraction_loop(b, pos, end, count, nanos) ==
    IF pos >= end THEN <<count, nanos>>
    ELSE IF ~is_ascii_digit(At(b, pos)) THEN <<count, nanos>>
    ELSE fraction_loop(b, pos + 1, end, count + 1, nanos * 10 + (At(b, pos) - Ord["0"]))

\* parse_timestamp from `let sign = match buf[*offset]` on: the cursor is
\* `at`, d holds what was decoded before it.
parse_timestamp_zone(b, at, d) ==
    LET len == Len(b) IN
    IF at >= len THEN Panic(at)
    ELSE IF At(b, at) \in {Ord["z"], Ord["Z"]}
         THEN to_datetime(at + 1, d.year, d.month, d.day, d.hour, d.minute,
                          d.second, d.nanos, 0)
    ELSE IF At(b, at) \notin {Ord["+"], Ord["-"]}
         THEN Fail(Err("InvalidTimestamp"), at)
    ELSE IF len - (at + 1) < 5 THEN Fail(Err("InvalidTimestamp"), at + 1)
    ELSE IF At(b, at + 3) # Ord[":"] THEN Fail(Err("InvalidTimestamp"), at + 1)
    ELSE
        LET sign == IF At(b, at) = Ord["+"] THEN 1 ELSE -1
            h == convert_2_digits(Slice(b, at + 1, at + 3))
            m == convert_2_digits(Slice(b, at + 4, at + 6))
        IN  to_datetime(at + 6, d.year, d.month, d.day, d.hour, d.minute,
                        d.second, d.nanos, sign * (h * 60 * 60 + m * 60))

\* parse_timestamp(buf, &mut offset), called with *offset = off
parse_timestamp(b, off) ==
    LET len == Len(b) IN
    \* `len - *offset` on usize: with the cursor past the end the subtraction
    \* panics (overflow checks) or wraps and the first slice panics
    IF off > len THEN Panic(off)
    ELSE IF len - off < 20 THEN Fail(Err("InvalidTimestamp"), off)
    ELSE IF At(b, off + 4) # Ord["-"] THEN Fail(Err("InvalidTimestamp"), off)
    ELSE IF At(b, off + 7) # Ord["-"] THEN Fail(Err("InvalidTimestamp"), off + 5)
    ELSE IF At(b, off + 10) # Ord["T"] THEN Fail(Err("InvalidTimestamp"), off + 8)
    ELSE IF At(b, off + 13) # Ord[":"] THEN Fail(Err("InvalidTimestamp"), off + 11)
    ELSE IF At(b, off + 16) # Ord[":"] THEN Fail(Err("InvalidTimestamp"), off + 14)
    ELSE
        LET year == convert_4_digits(Slice(b, off, off + 4))
            month == convert_2_digits(Slice(b, off + 5, off + 7))
            day == convert_2_digits(Slice(b, off + 8, off + 10))
            hour == convert_2_digits(Slice(b, off + 11, off + 13))
            minute == convert_2_digits(Slice(b, off + 14, off + 16))
            second == convert_2_digits(Slice(b, off + 17, off + 19))
            next_char == At(b, off + 19)
            d == [year |-> year, month |-> month, day |-> day, hour |-> hour,
                  minute |-> minute, second |-> second, nanos |-> 0]
        IN
        IF next_char \in {Ord["."], Ord[","]} THEN
            LET end == Min(off + 20 + 9, len)
                cn == fraction_loop(b, off + 20, end, 0, 0)
                nanos == cn[2] * Pow10(9 - cn[1])
            IN  parse_timestamp_zone(b, off + 20 + cn[1], [d EXCEPT !.nanos = nanos])
        ELSE IF next_char \in {Ord["z"], Ord["Z"]} THEN
            \* returns without moving the cursor over the 'Z'
            to_datetime(off + 19, year, month, day, hour, minute, second, 0, 0)
        ELSE parse_timestamp_zone(b, off + 19, d)

(***************************************************************************)
(* i32 arithmetic of the priority accumulator                              *)
(***************************************************************************)

I32Max == 2147483647
I32Min == -I32Max - 1

\* i32::wrapping_add, computed without leaving the i32 range
wrapping_add(a, c) ==
    IF c > 0 /\ a > I32Max - c THEN (a + I32Min) + (c + I32Min)
    ELSE IF c < 0 /\ a < I32Min - c THEN (a - I32Min) + (c - I32Min)
    ELSE a + c

\* i32::wrapping_mul(x, 10) as 8x + 2x
wrapping_mul10(x) ==
    LET x2 == wrapping_add(x, x)
        x4 == wrapping_add(x2, x2)
        x8 == wrapping_add(x4, x4)
    IN  wrapping_add(x8, x2)

\* whether (prival * 10) + digit overflows an i32, for prival >= 0
overflows(prival, digit) ==
    \/ prival > I32Max \div 10
    \/ prival * 10 > I32Max - digit

(***************************************************************************)
(* severity.rs, facility.rs                                                *)
(***************************************************************************)

SeverityNames ==
    << "EMERG", "ALERT", "CRIT", "ERR", "WARNING", "NOTICE", "INFO", "DEBUG" >>

FacilityNames ==
    << "KERN", "USER", "MAIL", "DAEMON", "AUTH", "SYSLOG", "LPR", "NEWS", "UUCP",
       "CRON", "AUTHPRIV", "FTP", "NTP", "AUDIT", "ALERT", "CLOCKD", "LOCAL0",
       "LOCAL1", "LOCAL2", "LOCAL3", "LOCAL4", "LOCAL5", "LOCAL6", "LOCAL7" >>

\* Severity::try_from(value): None when the value is outside the table
severity_try_from(value) ==
    IF value >= 0 /\ value < Len(SeverityNames)
    THEN Some(SeverityNames[value + 1]) ELSE None

\* Facility::try_from(value) over the table of Facility::from_int
facility_try_from(value) ==
    IF value >= 0 /\ value < Len(FacilityNames)
    THEN Some(FacilityNames[value + 1]) ELSE None

(***************************************************************************)
(* rfc5424.rs: parse_message, field by field                               *)
(***************************************************************************)

\* `if buf[offset] != b' ' { return Err(ExpectSeparator) } offset += 1`
\* after a field that left the cursor at `off` with value v
expect_separator(b, off, v) ==
    IF off >= Len(b) THEN Panic(off)
    ELSE IF At(b, off) # Ord[" "] THEN Fail(Err("ExpectSeparator"), off)
    ELSE Ok(off + 1, v)

\* The priority loop `for pos in 1..len`, at byte pos with the accumulator
\* prival.  kind "close": '>' found; "end": the loop ran off the buffer.
RECURSIVE pri_loop(_, _, _, _)
pri_loop(b, pos, prival, bld) ==
    IF pos >= Len(b) THEN [kind |-> "end", prival |-> prival, pos |-> pos]
    ELSE
        LET ch == At(b, pos) IN
        IF ~is_ascii_digit(ch) THEN
            IF ch = Ord[">"] THEN [kind |-> "close", prival |-> prival, pos |-> pos]
            ELSE [kind |-> "err", prival |-> prival, pos |-> pos]
        ELSE IF bld = "debug" /\ overflows(prival, ch - Ord["0"])
             THEN [kind |-> "panic", prival |-> prival, pos |-> pos]
        ELSE pri_loop(b, pos + 1,
                      wrapping_add(wrapping_mul10(prival), ch - Ord["0"]), bld)

\* prival & 0x7 and prival >> 3 on a two's complement i32
low3(prival) == prival % 8
\* A shift by two places instead of three
shr3_by_two(prival) == prival \div 4

shr3(prival) == prival \div 8

\* parse_message: the priority
parse_pri(b, bld) ==
    IF Len(b) < 4 THEN Fail(ErrChar("ExpectedChar", Ord["<"]), 0)
    ELSE IF At(b, 0) # Ord["<"] THEN Fail(ErrChar("ExpectedChar", Ord["<"]), 0)
    ELSE
        LET r == pri_loop(b, 1, 0, bld)
            off == IF r.kind = "close" THEN r.pos + 1 ELSE 1
            severity == severity_try_from(low3(r.prival))
            facility == facility_try_from(shr3(r.prival))
        IN
        IF r.kind = "panic" THEN Panic(1)
        ELSE IF r.kind = "err" THEN Fail(ErrChar("ExpectedChar", At(b, r.pos)), 1)
        ELSE IF severity = None THEN Fail(Err("BadSeverity"), off)
        ELSE IF facility = None THEN Fail(Err("BadFacility"), off)
        ELSE Ok(off, [severity |-> severity[1], facility |-> facility[1]])
\* A version that may be any byte
parse_version_any_byte(b, off) ==
    IF off >= Len(b) THEN Panic(off)
    ELSE expect_separator(b, off + 1, At(b, off) - Ord["0"])

\* parse_message: the version digit and the separator after it
parse_version(b, off) ==
    IF off >= Len(b) THEN Panic(off)
    ELSE IF ~is_ascii_digit(At(b, off))
         THEN Fail(ErrChar("ExpectedChar", At(b, off)), off)
    ELSE expect_separator(b, off + 1, At(b, off) - Ord["0"])

\* parse_message: the timestamp and the separator after it
parse_timestamp_field(b, off) ==
    IF off >= Len(b) THEN Panic(off)
    ELSE IF At(b, off) = Ord["-"] THEN expect_separator(b, off + 1, None)
    ELSE LET r == parse_timestamp(b, off) IN
         IF r.kind = "ok"
         THEN expect_separator(b, r.offset, Some(r.val))
         ELSE r

\* take_until_whitespace(buf, &mut offset): position of the first space at
\* or after pos, or Len(b) when there is none
RECURSIVE find_space(_, _)
find_space(b, pos) ==
    IF pos >= Len(b) THEN Len(b)
    ELSE IF At(b, pos) = Ord[" "] THEN pos
    ELSE find_space(b, pos + 1)

take_until_whitespace(b, off) ==
    LET pos == find_space(b, off) IN
    IF pos >= Len(b) THEN Fail(Err("UnexpectedEndOfInput"), off)
    ELSE Ok(pos, Slice(b, off, pos))
\* A field whose '-' is text like any other
parse_term_field_no_nil(b, off) ==
    IF off >= Len(b) THEN Panic(off)
    ELSE LET r == take_until_whitespace(b, off) IN
         IF r.kind = "ok"
         THEN expect_separator(b, r.offset, Some(r.val))
         ELSE r

\* parse_message: hostname, appname or msgid, and the separator after it
parse_term_field(b, off) ==
    IF off >= Len(b) THEN Panic(off)
    ELSE IF At(b, off) = Ord["-"] THEN expect_separator(b, off + 1, None)
    ELSE LET r == take_until_whitespace(b, off) IN
         IF r.kind = "ok"
         THEN expect_separator(b, r.offset, Some(r.val))
         ELSE r

\* str::parse::<i32>: the digits of s from index i on, accumulated on the
\* side of the sign so that i32::MIN parses; None on overflow or a non-digit
RECURSIVE i32_digits(_, _, _, _)
i32_digits(s, i, acc, positive) ==
    IF i > Len(s) THEN Some(acc)
    ELSE IF ~is_ascii_digit(s[i]) THEN None
    ELSE
        LET d == s[i] - Ord["0"] IN
        IF positive
        THEN IF overflows(acc, d) THEN None
             ELSE i32_digits(s, i + 1, acc * 10 + d, positive)
        ELSE IF \/ acc < -(I32Max \div 10)
                \/ (acc = -(I32Max \div 10) /\ d > (I32Max % 10) + 1)
             THEN None
             ELSE i32_digits(s, i + 1, acc * 10 - d, positive)

i32_from_str(s) ==
    IF Len(s) = 0 THEN None
    ELSE IF s[1] \in {Ord["+"], Ord["-"]}
         THEN IF Len(s) = 1 THEN None
              ELSE i32_digits(s, 2, 0, s[1] = Ord["+"])
    ELSE i32_digits(s, 1, 0, TRUE)

\* ProcId::PID(n) or ProcId::Name(s)
ProcIdOf(s) ==
    LET n == i32_from_str(s) IN
    IF n # None THEN [variant |-> "PID", pid |-> n[1], name |-> <<>>]
    ELSE [variant |-> "Name", pid |-> 0, name |-> s]

\* parse_message: the procid and the separator after it
parse_procid_field(b, off) ==
    IF off >= Len(b) THEN Panic(off)
    ELSE IF At(b, off) = Ord["-"] THEN expect_separator(b, off + 1, None)
    ELSE LET r == take_until_whitespace(b, off) IN
         IF r.kind = "ok"
         THEN expect_separator(b, r.offset, Some(ProcIdOf(r.val)))
         ELSE r

(***************************************************************************)
(* rfc5424.rs: structured data                                             *)
(***************************************************************************)

\* The first position at or after pos whose byte is in `stops`, or Len(b)
RECURSIVE find_byte(_, _, _)
find_byte(b, pos, stops) ==
    IF pos >= Len(b) THEN Len(b)
    ELSE IF At(b, pos) \in stops THEN pos
    ELSE find_byte(b, pos + 1, stops)

parse_param_key(b, off) ==
    LET pos == find_byte(b, off, {Ord["="], Ord["]"]}) IN
    IF pos >= Len(b) THEN Fail(Err("UnexpectedEndOfInput"), off)
    ELSE Ok(pos, Slice(b, off, pos))

parse_param_value(b, off) ==
    IF off >= Len(b) THEN Panic(off)
    ELSE IF At(b, off) # Ord["\""] THEN Fail(ErrChar("ExpectedChar", Ord["\""]), off)
    ELSE
        LET pos == find_byte(b, off + 1, {Ord["\""]}) IN
        IF pos >= Len(b) THEN Fail(Err("UnexpectedEndOfInput"), off + 1)
        ELSE Ok(pos + 1, Slice(b, off + 1, pos))

\* Parameters with any byte between them
RECURSIVE parse_sd_params_any_separator(_, _, _)
parse_sd_params_any_separator(b, off, params) ==
    LET key == parse_param_key(b, off) IN
    IF key.kind # "ok" THEN key
    ELSE IF At(b, key.offset) # Ord["="]
         THEN Fail(ErrChar("ExpectedChar", Ord["="]), key.offset)
    ELSE
        LET value == parse_param_value(b, key.offset + 1) IN
        IF value.kind # "ok" THEN value
        ELSE
            LET pushed == Append(params, <<key.val, value.val>>) IN
            IF value.offset >= Len(b) THEN Panic(value.offset)
            ELSE IF At(b, value.offset) = Ord["]"] THEN Ok(value.offset + 1, pushed)
            ELSE IF At(b, value.offset) = Ord[" "]
                 THEN parse_sd_params_any_separator(b, value.offset + 1, pushed)
            ELSE parse_sd_params_any_separator(b, value.offset + 1, pushed)

\* parse_sd_params: one turn of the loop, with the params pushed so far
RECURSIVE parse_sd_params(_, _, _)
parse_sd_params(b, off, params) ==
    LET key == parse_param_key(b, off) IN
    IF key.kind # "ok" THEN key
    ELSE IF At(b, key.offset) # Ord["="]
         THEN Fail(ErrChar("ExpectedChar", Ord["="]), key.offset)
    ELSE
        LET value == parse_param_value(b, key.offset + 1) IN
        IF value.kind # "ok" THEN value
        ELSE
            LET pushed == Append(params, <<key.val, value.val>>) IN
            IF value.offset >= Len(b) THEN Panic(value.offset)
            ELSE IF At(b, value.offset) = Ord["]"] THEN Ok(value.offset + 1, pushed)
            ELSE IF At(b, value.offset) = Ord[" "]
                 THEN parse_sd_params(b, value.offset + 1, pushed)
            ELSE Fail(Err("InvalidStructuredData"), value.offset)

StructuredElement(id, params) == [id |-> id, params |-> params]

\* An element that must have a parameter after its name
parse_structured_element_with_params(b, off) ==
    IF off >= Len(b) THEN Panic(off)
    ELSE IF At(b, off) # Ord["["] THEN Fail(ErrChar("ExpectedChar", Ord["["]), off)
    ELSE IF off + 1 >= Len(b) THEN Panic(off + 1)
    ELSE IF At(b, off + 1) = Ord["]"] THEN Ok(off + 2, StructuredElement(<<>>, <<>>))
    ELSE
        LET pos == find_byte(b, off + 1, {Ord[" "], Ord["]"]}) IN
        IF pos >= Len(b) THEN
            \* neither a space nor a ']' to the end: id stays "" and the
            \* cursor stays where the id began
            LET params == parse_sd_params(b, off + 1, <<>>) IN
            IF params.kind # "ok" THEN params
            ELSE Ok(params.offset, StructuredElement(<<>>, params.val))
        ELSE IF At(b, pos) = Ord["]"]
             THEN Fail(Err("UnexpectedEndOfInput"), pos)
        ELSE
            LET params == parse_sd_params(b, pos + 1, <<>>) IN
            IF params.kind # "ok" THEN params
            ELSE Ok(params.offset,
                    StructuredElement(Slice(b, off + 1, pos), params.val))

parse_structured_element(b, off) ==
    IF off >= Len(b) THEN Panic(off)
    ELSE IF At(b, off) # Ord["["] THEN Fail(ErrChar("ExpectedChar", Ord["["]), off)
    ELSE IF off + 1 >= Len(b) THEN Panic(off + 1)
    ELSE IF At(b, off + 1) = Ord["]"] THEN Ok(off + 2, StructuredElement(<<>>, <<>>))
    ELSE
        LET pos == find_byte(b, off + 1, {Ord[" "], Ord["]"]}) IN
        IF pos >= Len(b) THEN
            \* neither a space nor a ']' to the end: id stays "" and the
            \* cursor stays where the id began
            LET params == parse_sd_params(b, off + 1, <<>>) IN
            IF params.kind # "ok" THEN params
            ELSE Ok(params.offset, StructuredElement(<<>>, params.val))
        ELSE IF At(b, pos) = Ord["]"]
             THEN Ok(pos + 1, StructuredElement(Slice(b, off + 1, pos), <<>>))
        ELSE
            LET params == parse_sd_params(b, pos + 1, <<>>) IN
            IF params.kind # "ok" THEN params
            ELSE Ok(params.offset,
                    StructuredElement(Slice(b, off + 1, pos), params.val))

\* Structured data that is one element and no more
parse_structured_data_one(b, off, elements) ==
    LET element == parse_structured_element(b, off) IN
    IF element.kind # "ok" THEN element
    ELSE Ok(element.offset, Append(elements, element.val))

RECURSIVE parse_structured_data(_, _, _)
parse_structured_data(b, off, elements) ==
    LET element == parse_structured_element(b, off) IN
    IF element.kind # "ok" THEN element
    ELSE
        LET pushed == Append(elements, element.val) IN
        IF element.offset = Len(b) THEN Ok(element.offset, pushed)
        ELSE IF element.offset > Len(b) THEN Panic(element.offset)
        ELSE IF At(b, element.offset) = Ord[" "] THEN Ok(element.offset, pushed)
        ELSE parse_structured_data(b, element.offset, pushed)

\* parse_message: the structured data
parse_sd_field(b, off) ==
    IF off >= Len(b) THEN Panic(off)
    ELSE IF At(b, off) = Ord["-"] THEN Ok(off + 1, <<>>)
    ELSE parse_structured_data(b, off, <<>>)

\* A message body that keeps the space before it
parse_msg_keep_space(b, off) ==
    IF off > Len(b) THEN Panic(off)
    ELSE Ok(off, Slice(b, off, Len(b)))

\* parse_message: the message body
parse_msg(b, off) ==
    LET start == IF off < Len(b) /\ At(b, off) = Ord[" "] THEN off + 1 ELSE off IN
    IF start > Len(b) THEN Panic(start)
    ELSE Ok(start, Slice(b, start, Len(b)))

(***************************************************************************)
(* The calls.  parse_message is one step per field, in the order of the    *)
(* source; a failing step ends the call.                                   *)
(***************************************************************************)

NoMessage ==
    [severity |-> <<>>, facility |-> <<>>, version |-> <<>>, timestamp |-> <<>>,
     hostname |-> <<>>, appname |-> <<>>, procid |-> <<>>, msgid |-> <<>>,
     structured_data |-> <<>>, msg |-> <<>>]

\* The step of field `here` ended as r; `decoded` is the message with the
\* field filled in.  An Err or a panic drops every local.
Step(here, next, r, decoded) ==
    /\ pc = here
    /\ outcome = "running"
    /\ mark' = offset
    /\ offset' = r.offset
    /\ IF r.kind = "ok"
       THEN /\ pc' = next
            /\ outcome' = IF next = "done" THEN "ok" ELSE "running"
            /\ error' = <<>>
            /\ message' = decoded
       ELSE /\ pc' = here
            /\ outcome' = r.kind
            /\ error' = r.err
            /\ message' = NoMessage
    /\ UNCHANGED <<call, build, buf>>

ParsePri ==
    LET r == parse_pri(buf, build) IN
    Step("pri", "version", r,
         [message EXCEPT !.severity = <<r.val.severity>>,
                         !.facility = <<r.val.facility>>])

ParseVersion ==
    LET r == parse_version(buf, offset) IN
    Step("version", "timestamp", r, [message EXCEPT !.version = <<r.val>>])

ParseTimestamp ==
    LET r == parse_timestamp_field(buf, offset) IN
    Step("timestamp", "hostname", r, [message EXCEPT !.timestamp = r.val])

\* A hostname step that goes on to PROCID, past APP-NAME
ParseHostnameSkipsAppname ==
    LET r == parse_term_field(buf, offset) IN
    Step("hostname", "procid", r, [message EXCEPT !.hostname = r.val])

ParseHostname ==
    LET r == parse_term_field(buf, offset) IN
    Step("hostname", "appname", r, [message EXCEPT !.hostname = r.val])

ParseAppname ==
    LET r == parse_term_field(buf, offset) IN
    Step("appname", "procid", r, [message EXCEPT !.appname = r.val])

ParseProcid ==
    LET r == parse_procid_field(buf, offset) IN
    Step("procid", "msgid", r, [message EXCEPT !.procid = r.val])

ParseMsgid ==
    LET r == parse_term_field(buf, offset) IN
    Step("msgid", "structured_data", r, [message EXCEPT !.msgid = r.val])

ParseStructuredData ==
    LET r == parse_sd_field(buf, offset) IN
    Step("structured_data", "msg", r, [message EXCEPT !.structured_data = r.val])

ParseMsg ==
    LET r == parse_msg(buf, offset) IN
    Step("msg", "done", r, [message EXCEPT !.msg = r.val])

\* A direct call parse_timestamp(buf, &mut 0)
CallParseTimestamp ==
    LET r == parse_timestamp(buf, offset) IN
    Step("parse_timestamp", "done", r, [message EXCEPT !.timestamp = <<r.val>>])

(***************************************************************************)
(* Inputs                                                                  *)
(***************************************************************************)

\* Decimal text of n: two digits, four digits, and as few as needed
Dec2(n) == <<Ord["0"] + ((n \div 10) % 10), Ord["0"] + (n % 10)>>
Dec4(n) == Dec2((n \div 100) % 100) \o Dec2(n % 100)
RECURSIVE Dec(_)
Dec(n) == IF n < 10 THEN <<Ord["0"] + n>> ELSE Dec(n \div 10) \o <<Ord["0"] + (n % 10)>>

\* The largest priority value written (the valid ones are 0..191)
MaxPri == 200
\* The most fractional digits written after the seconds
MaxFrac == 10

RestNil == Bytes(<<"-", " ", "-", " ", "-", " ", "-", " ", "-", " ", "-">>)
RestExample ==
    Bytes(<<"2", "0", "0", "3", "-", "1", "0", "-", "1", "1", "T", "2", "2", ":", "1", "4", ":", "1", "5", ".", "0", "0", "3", "Z", " ", "m", "y", "m", "a", "c", "h", "i", "n", "e", ".", "e", "x", "a", "m", "p", "l", "e", ".", "c", "o", "m", " ", "s", "u", " ", "-", " ", "I", "D", "4", "7", " ", "-", " ", "B", "O", "M", "'", "s", "u", " ", "r", "o", "o", "t", "'", " ", "f", "a", "i", "l", "e", "d">>)

\* Priority texts that are not a plain decimal of 0..MaxPri
OddPriDigits ==
    { Bytes(<<>>),
      Bytes(<<"0", "0">>),
      Bytes(<<"0", "0", "7">>),
      Bytes(<<"0", "0", "3", "4">>),
      Bytes(<<"0", "1", "9", "1">>),
      Bytes(<<"4", "0", "9", "6">>),
      Bytes(<<"9", "9", "9">>),
      Bytes(<<"1", "0", "0", "0">>),
      Bytes(<<"2", "1", "4", "7", "4", "8", "3", "6", "4", "8">>),
      Bytes(<<"4", "2", "9", "4", "9", "6", "7", "2", "9", "6">>),
      Bytes(<<"4", "2", "9", "4", "9", "6", "7", "3", "3", "0">>),
      Bytes(<<"1", "a">>),
      Bytes(<<"-", "1">>),
      Bytes(<<"+", "1">>),
      Bytes(<<" ", "1">>) }

\* Heads with the brackets missing or doubled
BadPriHeads ==
    { Bytes(<<"1", ">", "1", " ">>),
      Bytes(<<">", "1", " ">>),
      Bytes(<<"<", "1", "1", " ">>),
      Bytes(<<"<", "1", " ", "1", " ">>),
      Bytes(<<"<", "<", "1", ">", "1", " ">>),
      Bytes(<<"<", "1", ">", ">", "1", " ">>) }

PriHeads ==
    {Bytes(<<"<">>) \o Dec(p) \o Bytes(<<">", "1", " ">>) : p \in 0..MaxPri}
    \cup {Bytes(<<"<">>) \o d \o Bytes(<<">", "1", " ">>) : d \in OddPriDigits}
    \cup BadPriHeads

PriInputs == {h \o r : h \in PriHeads, r \in {RestNil, RestExample}}

\* The byte after the priority
VersionBytes ==
    { Bytes(<<"0">>),
      Bytes(<<"1">>),
      Bytes(<<"9">>),
      Bytes(<<"F">>),
      Bytes(<<" ">>),
      Bytes(<<"-">>),
      Bytes(<<"a">>),
      Bytes(<<"/">>),
      Bytes(<<":">>) }
\* The byte after the version
VersionSepBytes ==
    { Bytes(<<" ">>),
      Bytes(<<"1">>),
      Bytes(<<"-">>),
      Bytes(<<"T">>),
      Bytes(<<"_">>) }
Rfc3164Line ==
    Bytes(<<"<", "1", "3", "4", ">", "F", "e", "b", " ", "1", "8", " ", "2", "0", ":", "5", "3", ":", "3", "1", " ", "h", "a", "p", "r", "o", "x", "y", "[", "3", "7", "6", "]", ":", " ", "I", " ", "a", "m", " ", "a", " ", "m", "e", "s", "s", "a", "g", "e">>)

VersionInputs ==
    {Bytes(<<"<", "3", "4", ">">>) \o v \o sp \o RestNil :
        v \in VersionBytes, sp \in VersionSepBytes}
    \cup {Bytes(<<"<", "3", "4", ">">>) \o v \o sp \o RestNil :
        v \in {Dec(n) : n \in 0..9}, sp \in {Bytes(<<" ">>)}}
    \cup {Rfc3164Line}

\* A timestamp text from its numbers and what follows the seconds
TsText(y, mo, d, h, mi, sec, tail) ==
    Dec4(y) \o Bytes(<<"-">>) \o Dec2(mo) \o Bytes(<<"-">>) \o Dec2(d) \o Bytes(<<"T">>)
    \o Dec2(h) \o Bytes(<<":">>) \o Dec2(mi) \o Bytes(<<":">>) \o Dec2(sec) \o tail

\* n copies of byte c
RECURSIVE Rep(_, _)
Rep(c, n) == IF n = 0 THEN <<>> ELSE <<c>> \o Rep(c, n - 1)

\* b with the byte at index i replaced by c
Replace(b, i, c) == [b EXCEPT ![i + 1] = c]

DateYears == {1900, 2000, 2015, 2016, 2100}

DateTexts ==
    {TsText(y, mo, d, 23, 59, 59, Bytes(<<".", "5", "Z">>)) :
        y \in DateYears, mo \in 0..13, d \in 0..32}

TimeTails ==
    { Bytes(<<"Z">>),
      Bytes(<<".", "5", "Z">>),
      Bytes(<<"+", "0", "5", ":", "0", "0">>) }

TimeTexts ==
    {TsText(2015, 2, 18, h, mi, sec, tail) :
        h \in {0, 23, 24, 99}, mi \in {0, 59, 60, 99}, sec \in {0, 59, 60, 99},
        tail \in TimeTails}

FracDigits ==
    { Bytes(<<"2", "3", "4", "5", "6", "7">>),
      Bytes(<<"0", "0", "3">>),
      Bytes(<<"5", "2">>),
      Bytes(<<"0", "0", "0", "0", "0", "3">>),
      Bytes(<<"1", "2", "3", "4", "5", "6", "7", "8", "9">>),
      Bytes(<<"0", "0", "0", "0", "0", "0", "0", "0", "0">>),
      Bytes(<<"5">>) }
FracEnds ==
    { Bytes(<<"Z">>),
      Bytes(<<"z">>),
      Bytes(<<"+", "0", "5", ":", "0", "0">>),
      Bytes(<<"-", "0", "7", ":", "0", "0">>),
      Bytes(<<>>),
      Bytes(<<"x">>) }

FracTexts ==
    {TsText(2015, 2, 18, 23, 59, 59, sep \o digits \o end) :
        sep \in {Bytes(<<".">>), Bytes(<<",">>)},
        digits \in FracDigits \cup {Rep(Ord["9"], n) : n \in 0..MaxFrac},
        end \in FracEnds}

ZoneTails ==
    { Bytes(<<"Z">>),
      Bytes(<<"z">>),
      Bytes(<<>>),
      Bytes(<<"+">>),
      Bytes(<<"-">>),
      Bytes(<<"+", "0", "5">>),
      Bytes(<<"+", "0", "5", ":", "0">>),
      Bytes(<<"+", "0", "5", "0", "0">>),
      Bytes(<<"x", "0", "5", ":", "0", "0">>),
      Bytes(<<" ", "0", "5", ":", "0", "0">>),
      Bytes(<<"+", "0", "5", ":", "0", "0", "x">>) }

ZoneTexts ==
    {TsText(2019, 1, 20, 0, 46, 39, frac \o sign \o Dec2(hh) \o colon \o Dec2(mm)) :
        frac \in {<<>>, Bytes(<<".", "5">>)},
        sign \in {Bytes(<<"+">>), Bytes(<<"-">>)},
        hh \in {0, 4, 5, 23, 24, 99},
        colon \in {Bytes(<<":">>), <<>>, Bytes(<<" ">>)},
        mm \in {0, 45, 59, 60, 99}}
    \cup {TsText(2019, 1, 20, 0, 46, 39, frac \o tail) :
        frac \in {<<>>, Bytes(<<".", "5">>)}, tail \in ZoneTails}

ReplaceBase == Bytes(<<"2", "0", "1", "5", "-", "0", "2", "-", "1", "8", "T", "2", "3", ":", "1", "6", ":", "0", "9", ".", "5", "+", "0", "5", ":", "4", "5">>)
ReplaceBytes ==
    { Bytes(<<" ">>),
      Bytes(<<"A">>),
      Bytes(<<":">>),
      Bytes(<<"/">>),
      Bytes(<<"z">>),
      Bytes(<<"t">>),
      Bytes(<<"_">>),
      Bytes(<<"-">>) }

\* ReplaceBase with one byte replaced
ReplacedTexts ==
    {Replace(ReplaceBase, i, c[1]) : i \in 0..(Len(ReplaceBase) - 1), c \in ReplaceBytes}

\* The timestamps of the tests and of RFC 3339, and some cut short
ExampleTexts ==
    { Bytes(<<"1", "9", "8", "5", "-", "0", "4", "-", "1", "2", "T", "2", "3", ":", "2", "0", ":", "5", "0", ".", "5", "2", "Z">>),
      Bytes(<<"1", "9", "8", "5", "-", "0", "4", "-", "1", "2", "T", "2", "3", ":", "2", "0", ":", "5", "0", ".", "1", "2", "3", "4", "5", "6", "7", "8", "9", "Z">>),
      Bytes(<<"1", "9", "9", "6", "-", "1", "2", "-", "1", "9", "T", "1", "6", ":", "3", "9", ":", "5", "7", "-", "0", "8", ":", "0", "0">>),
      Bytes(<<"1", "9", "9", "0", "-", "1", "2", "-", "3", "1", "T", "2", "3", ":", "5", "9", ":", "5", "9", "Z">>),
      Bytes(<<"1", "9", "9", "0", "-", "1", "2", "-", "3", "1", "T", "2", "3", ":", "5", "9", ":", "6", "0", "Z">>),
      Bytes(<<"1", "9", "9", "0", "-", "1", "2", "-", "3", "1", "T", "1", "5", ":", "5", "9", ":", "5", "9", "-", "0", "8", ":", "0", "0">>),
      Bytes(<<"1", "9", "3", "7", "-", "0", "1", "-", "0", "1", "T", "1", "2", ":", "0", "0", ":", "2", "7", ".", "8", "7", "+", "0", "0", ":", "2", "0">>),
      Bytes(<<"2", "0", "1", "5", "-", "0", "1", "-", "0", "1", "T", "0", "0", ":", "0", "0", ":", "0", "0", "Z">>),
      Bytes(<<"2", "0", "1", "5", "-", "0", "1", "-", "0", "1", "T", "0", "0", ":", "0", "0", ":", "0", "0", "+", "0", "0", ":", "0", "0">>),
      Bytes(<<"2", "0", "1", "5", "-", "0", "1", "-", "0", "1", "T", "0", "0", ":", "0", "0", ":", "0", "0", "-", "1", "0", ":", "0", "0">>),
      Bytes(<<"2", "0", "1", "5", "-", "0", "1", "-", "0", "1", "T", "1", "8", ":", "5", "0", ":", "0", "0", "-", "0", "4", ":", "0", "0">>),
      Bytes(<<"2", "0", "1", "5", "-", "0", "1", "-", "0", "1", "T", "2", "2", ":", "5", "0", ":", "0", "0", "Z">>),
      Bytes(<<"2", "0", "1", "9", "-", "0", "1", "-", "2", "0", "T", "0", "0", ":", "4", "6", ":", "3", "9", "+", "0", "5", ":", "4", "5">>),
      Bytes(<<"2", "0", "1", "9", "-", "0", "1", "-", "1", "9", "T", "1", "1", ":", "0", "1", ":", "3", "9", "-", "0", "8", ":", "0", "0">>),
      Bytes(<<"2", "0", "0", "3", "-", "0", "8", "-", "2", "4", "T", "0", "5", ":", "1", "4", ":", "1", "5", ".", "0", "0", "0", "0", "0", "3", "-", "0", "7", ":", "0", "0">>),
      Bytes(<<"2", "0", "0", "3", "-", "1", "0", "-", "1", "1", "T", "2", "2", ":", "1", "4", ":", "1", "5", ".", "0", "0", "3", "Z">>),
      Bytes(<<"2", "0", "1", "5", "-", "0", "2", "-", "1", "8", "T", "2", "3", ":", "5", "9", ":", "5", "9", ".", "2", "3", "4", "5", "6", "7", "+", "0", "5", ":", "0", "0">>),
      Bytes(<<"2", "0", "1", "5", "-", "0", "2", "-", "1", "8", "T", "2", "3", ":", "1", "6", ":", "0", "9", "Z">>),
      Bytes(<<"2", "0", "1", "5", "-", "0", "1", "-", "0", "1", "T", "0", "0", ":", "0", "0", "Z">>),
      Bytes(<<"2", "0", "1", "5", "-", "0", "1", "-", "0", "1", " ", "0", "0", ":", "0", "0", ":", "0", "0", "Z">>),
      Bytes(<<"2", "0", "1", "5">>),
      Bytes(<<>>) }

\* Instants, as UTC <<year, month, day, hour, minute, second>>: the two of
\* test_with_time_offset_nonzero, and instants near the end of a day, of a
\* month, of February and of a year
Instants ==
    { <<2015, 1, 1, 22, 50, 0>>,
      <<2019, 1, 19, 19, 1, 39>>,
      <<2015, 12, 31, 23, 59, 59>>,
      <<2016, 1, 1, 0, 0, 0>>,
      <<2016, 2, 28, 23, 0, 0>>,
      <<2015, 2, 28, 23, 0, 0>>,
      <<2016, 3, 1, 0, 30, 0>>,
      <<1900, 3, 1, 0, 0, 0>>,
      <<2000, 2, 29, 12, 0, 0>>,
      <<1996, 12, 20, 0, 39, 57>> }

\* Offsets in seconds east of UTC
InstantOffsets == {0, -14400, -28800, -36000, 20700, 1200, 50400, -43200, 86340, -86340}

\* +HH:MM or -HH:MM for an offset of secs seconds
WriteOffset(secs) ==
    LET a == IF secs < 0 THEN 0 - secs ELSE secs IN
    (IF secs < 0 THEN Bytes(<<"-">>) ELSE Bytes(<<"+">>))
    \o Dec2(a \div 3600) \o Bytes(<<":">>) \o Dec2((a % 3600) \div 60)

\* The wall clock <<year, month, day, hour, minute, second>> that shows
\* instant u where the offset is secs
WallClock(u, secs) ==
    LET t == u[4] * 3600 + u[5] * 60 + u[6] + secs
        date == IF t < 0 THEN pred_opt(u[1], u[2], u[3])
                ELSE IF t >= 86400 THEN succ_opt(u[1], u[2], u[3])
                ELSE <<u[1], u[2], u[3]>>
        r == (t + 86400) % 86400
    IN  <<date[1], date[2], date[3], r \div 3600, (r % 3600) \div 60, r % 60>>

\* Instant u written with offset secs
InstantText(u, secs) ==
    LET w == WallClock(u, secs) IN
    TsText(w[1], w[2], w[3], w[4], w[5], w[6], WriteOffset(secs))

\* Instant u written in UTC with the zone z
ZuluText(u, z) == TsText(u[1], u[2], u[3], u[4], u[5], u[6], z)

ZuluZones == {Bytes(<<"Z">>), Bytes(<<"z">>), Bytes(<<"-", "0", "0", ":", "0", "0">>)}

InstantTexts ==
    {InstantText(u, secs) : u \in Instants, secs \in InstantOffsets}
    \cup {ZuluText(u, z) : u \in Instants, z \in ZuluZones}

TimestampTexts ==
    DateTexts \cup TimeTexts \cup FracTexts \cup ZoneTexts \cup ReplacedTexts
    \cup ExampleTexts \cup InstantTexts

\* A timestamp in a message whose other fields are plain
TimestampInputs ==
    {Bytes(<<"<", "1", ">", "1", " ">>) \o ts \o Bytes(<<" ", "h", "o", "s", "t", " ">>)
        \o Bytes(<<"-", " ", "-", " ", "-", " ", "-">>) : ts \in TimestampTexts}
    \cup {Bytes(<<"<", "1", ">", "1", " ">>) \o ts : ts \in FracTexts \cup ExampleTexts}

\* HOSTNAME, APP-NAME, PROCID and MSGID texts
Terms ==
    { Bytes(<<"-">>),
      Bytes(<<"h", "o", "s", "t", "1">>),
      Bytes(<<"-", "w", "e", "b", "1", "w", "e", "s", "t">>),
      Bytes(<<"1", "0", "3", "9", "1">>),
      Bytes(<<>>) }
TermHead == Bytes(<<"<", "3", "9", ">", "1", " ", "2", "0", "1", "8", "-", "0", "5", "-", "1", "5", "T", "2", "0", ":", "5", "6", ":", "5", "8", "+", "0", "0", ":", "0", "0", " ">>)

TermInputs ==
    {TermHead \o h \o Bytes(<<" ">>) \o a \o Bytes(<<" ">>) \o p \o Bytes(<<" ">>) \o m
        \o Bytes(<<" ", "-">>) : h \in Terms, a \in Terms, p \in Terms, m \in Terms}

\* PROCID texts
ProcIds ==
    { Bytes(<<"8", "7", "1", "0">>),
      Bytes(<<"0">>),
      Bytes(<<"0", "0", "7">>),
      Bytes(<<"+", "5">>),
      Bytes(<<"-", "5">>),
      Bytes(<<"+">>),
      Bytes(<<"2", "1", "4", "7", "4", "8", "3", "6", "4", "7">>),
      Bytes(<<"2", "1", "4", "7", "4", "8", "3", "6", "4", "8">>),
      Bytes(<<"-", "2", "1", "4", "7", "4", "8", "3", "6", "4", "8">>),
      Bytes(<<"-", "2", "1", "4", "7", "4", "8", "3", "6", "4", "9">>),
      Bytes(<<"9", "9", "9", "9", "9", "9", "9", "9", "9", "9", "9">>),
      Bytes(<<"1", "2", "a">>),
      Bytes(<<"s", "u">>),
      Bytes(<<"1", ".", "5">>),
      Bytes(<<"-", "-">>) }
ProcIdHead == Bytes(<<"<", "1", "6", "5", ">", "1", " ", "2", "0", "0", "3", "-", "0", "8", "-", "2", "4", "T", "0", "5", ":", "1", "4", ":", "1", "5", ".", "0", "0", "0", "0", "0", "3", "-", "0", "7", ":", "0", "0", " ", "1", "9", "2", ".", "0", ".", "2", ".", "1", " ", "m", "y", "p", "r", "o", "c", " ">>)

ProcIdInputs ==
    {ProcIdHead \o p \o Bytes(<<" ", "-", " ", "-">>) : p \in ProcIds}

\* STRUCTURED-DATA texts
SdTexts ==
    { Bytes(<<"-">>),
      Bytes(<<"[", "]">>),
      Bytes(<<"[", "e", "m", "p", "t", "y", "]">>),
      Bytes(<<"[", "m", "e", "t", "a", "@", "1", "2", "3", "4", "]">>),
      Bytes(<<"[", "m", "e", "t", "a", " ", "k", "e", "y", "=", "\"", "v", "a", "l", "\\", "\"", "u", "e", "\"", "]">>),
      Bytes(<<"[", "m", "e", "t", "a", " ", "k", "e", "y", "=", "\"", "v", "a", "l", "\\", "\\", "\"", "]">>),
      Bytes(<<"[", "m", "e", "t", "a", " ", "s", "e", "q", "u", "e", "n", "c", "e", "I", "d", "=", "\"", "2", "9", "\"", "]">>),
      Bytes(<<"[", "m", "e", "t", "a", " ", "s", "e", "q", "u", "e", "n", "c", "e", "I", "d", "=", "\"", "2", "9", "\"", " ", "s", "e", "q", "u", "e", "n", "c", "e", "B", "l", "a", "h", "=", "\"", "f", "o", "o", "\"", "]", "[", "m", "y", " ", "k", "e", "y", "=", "\"", "v", "a", "l", "u", "e", "\"", "]", "[", "m", "e", "t", "a", " ", "b", "a", "r", "=", "\"", "b", "a", "z", "=", "\"", "]">>),
      Bytes(<<"[", "a", " ", "x", "=", "\"", "1", "\"", "]", "[", "b", " ", "y", "=", "\"", "2", "\"", "]">>),
      Bytes(<<"[", "a", " ", "x", "=", "\"", "1", "\"", "]", "[", "a", " ", "x", "=", "\"", "1", "\"", "]">>),
      Bytes(<<"[", "a", " ", "x", "=", "\"", "1", "\"", " ", "y", "=", "\"", "2", "\"", " ", "x", "=", "\"", "1", "\"", "]">>),
      Bytes(<<"[", "a", " ", "x", "=", "\"", "\"", "]">>),
      Bytes(<<"[", "e", "m", "p", "t", "y", "]", "[", "n", "o", "n", "_", "e", "m", "p", "t", "y", " ", "x", "=", "\"", "1", "\"", "]">>),
      Bytes(<<"[", "n", "o", "n", "_", "e", "m", "p", "t", "y", " ", "x", "=", "\"", "1", "\"", "]", "[", "e", "m", "p", "t", "y", "]">>),
      Bytes(<<"[", "]", "[", "]">>),
      Bytes(<<"[", "]", "[", "a", "]">>),
      Bytes(<<"[", "i", "n", "c", "o", "r", "r", "e", "c", "t", " ", "x", "]">>),
      Bytes(<<"[", "i", "n", "c", "o", "r", "r", "e", "c", "t", " ", "x", "=", "]">>),
      Bytes(<<"[", "i", "n", "c", "o", "r", "r", "e", "c", "t", " ", "x", "=", "\"", "1", "\"", "y", "]">>),
      Bytes(<<"[", "a", " ", "x", "=", "\"", "1", "\"", "]", " ", "[", "b", " ", "y", "=", "\"", "2", "\"", "]">>),
      Bytes(<<"[", "a", " ", "x", "=", "\"", "1", "\"", "]", "x">>),
      Bytes(<<"[", "a", "]", "x">>),
      Bytes(<<"[", "a", " ", "x", "=", "\"", "1", "\"", "]", "-">>),
      Bytes(<<"[", "a", " ", " ", "x", "=", "\"", "1", "\"", "]">>),
      Bytes(<<"[", "a", " ", "x", "=", " ", "\"", "1", "\"", "]">>),
      Bytes(<<"[", "a", " ", "=", "x", "]">>),
      Bytes(<<"[", "a", " ", "]">>),
      Bytes(<<"[", "a">>),
      Bytes(<<"[", "a", " ", "x">>),
      Bytes(<<"[", "a", " ", "x", "=">>),
      Bytes(<<"[", "a", " ", "x", "=", "\"", "1">>),
      Bytes(<<"[", "a", " ", "x", "=", "\"", "1", "\"">>),
      Bytes(<<"[", "a", " ", "x", "=", "\"", "1", "\"", " ">>),
      Bytes(<<"[", "a", "=", "\"", "1", "\"">>),
      Bytes(<<"[">>),
      Bytes(<<"x">>),
      Bytes(<<"-", "-">>),
      Bytes(<<>>) }
\* What follows the structured data
MsgTails ==
    { Bytes(<<>>),
      Bytes(<<" ">>),
      Bytes(<<" ", "s", "o", "m", "e", "_", "m", "e", "s", "s", "a", "g", "e">>),
      Bytes(<<" ", " ", "t", "w", "o", " ", "s", "p", "a", "c", "e", "s">>),
      Bytes(<<" ", "[", "a", " ", "x", "=", "\"", "1", "\"", "]", " ", "m">>) }
SdHead == Bytes(<<"<", "7", "8", ">", "1", " ", "2", "0", "1", "6", "-", "0", "1", "-", "1", "5", "T", "0", "0", ":", "0", "4", ":", "0", "1", "+", "0", "0", ":", "0", "0", " ", "h", "o", "s", "t", "1", " ", "C", "R", "O", "N", "D", " ", "1", "0", "3", "9", "1", " ", "-", " ">>)

SdInputs == {SdHead \o sd \o tail : sd \in SdTexts, tail \in MsgTails}

\* Elements with parameters: plain, a repeated key, and the element of
\* tests::rfc5424_examples with an empty value
SdElements ==
    { StructuredElement(Bytes(<<"a">>), <<<<Bytes(<<"x">>), Bytes(<<"1">>)>>>>),
      StructuredElement(Bytes(<<"b">>), <<<<Bytes(<<"y">>), Bytes(<<"2">>)>>>>),
      StructuredElement(Bytes(<<"a">>), <<<<Bytes(<<"x">>), Bytes(<<"1">>)>>, <<Bytes(<<"y">>), Bytes(<<"2">>)>>, <<Bytes(<<"x">>), Bytes(<<"1">>)>>>>),
      StructuredElement(Bytes(<<"e", "x", "a", "m", "p", "l", "e", "S", "D", "I", "D", "@", "3", "2", "4", "7", "3">>), <<<<Bytes(<<"i", "u", "t">>), Bytes(<<"3">>)>>, <<Bytes(<<"e", "v", "e", "n", "t", "S", "o", "u", "r", "c", "e">>), Bytes(<<>>)>>, <<Bytes(<<"e", "v", "e", "n", "t", "I", "D">>), Bytes(<<"1", "0", "1", "1">>)>>>>) }

\* The most elements written side by side
MaxElements == 3

SdLists == UNION {[1..n -> SdElements] : n \in 1..MaxElements}

\* key="value" for each parameter, a space before each
RECURSIVE WriteParams(_)
WriteParams(params) ==
    IF Len(params) = 0 THEN <<>>
    ELSE Bytes(<<" ">>) \o Head(params)[1] \o Bytes(<<"=", "\"">>)
         \o Head(params)[2] \o Bytes(<<"\"">>) \o WriteParams(Tail(params))

WriteElement(e) == Bytes(<<"[">>) \o e.id \o WriteParams(e.params) \o Bytes(<<"]">>)

\* The elements side by side, nothing between them
RECURSIVE WriteElements(_)
WriteElements(es) ==
    IF Len(es) = 0 THEN <<>>
    ELSE WriteElement(Head(es)) \o WriteElements(Tail(es))

\* What follows the last ']': nothing, a space, a msg, or another byte
SdAfter ==
    { Bytes(<<>>),
      Bytes(<<" ">>),
      Bytes(<<" ", "B", "O", "M">>),
      Bytes(<<" ", "[", "a", " ", "x", "=", "\"", "1", "\"", "]", " ", "m">>),
      Bytes(<<"x">>),
      Bytes(<<"-">>),
      Bytes(<<"]">>) }

SdListInputs == {SdHead \o WriteElements(es) \o t : es \in SdLists, t \in SdAfter}

\* Elements of handles_empty_sd_element, and the element without a name
SdBareElements ==
    { StructuredElement(<<>>, <<>>),
      StructuredElement(Bytes(<<"e", "m", "p", "t", "y">>), <<>>),
      StructuredElement(Bytes(<<"n", "o", "n", "_", "e", "m", "p", "t", "y">>), <<<<Bytes(<<"x">>), Bytes(<<"1">>)>>>>) }

SdBareLists == UNION {[1..n -> SdBareElements] : n \in 1..MaxElements}

SdBareInputs ==
    {SdHead \o WriteElements(es) \o t :
        es \in SdBareLists, t \in {Bytes(<<>>), Bytes(<<" ">>), Bytes(<<" ", "q", "w", "e", "r", "t", "y">>)}}

\* Elements that break off: a name without '=', an '=' without '"', and a
\* byte other than ' ' or ']' after the closing '"'
SdMalformedElements ==
    { Bytes(<<"[", "i", "n", "c", "o", "r", "r", "e", "c", "t", " ", "x", "]">>),
      Bytes(<<"[", "i", "n", "c", "o", "r", "r", "e", "c", "t", " ", "x", "=", "]">>),
      Bytes(<<"[", "i", "n", "c", "o", "r", "r", "e", "c", "t", " ", "x", "=", "\"", "1", "\"", "y", "]">>),
      Bytes(<<"[", "i", "n", "c", "o", "r", "r", "e", "c", "t", " ", "x", "=", "\"", "1", "\"", " ", "y", "]">>),
      Bytes(<<"[", "i", "n", "c", "o", "r", "r", "e", "c", "t", " ", "x", "=", "1", "]">>),
      Bytes(<<"[", "i", "n", "c", "o", "r", "r", "e", "c", "t", " ", "x", "=", "\"", "1", "\"", "=", "\"", "2", "\"", "]">>) }

\* A malformed element alone or after a good one, and what may follow it
SdMalformedInputs ==
    {SdHead \o WriteElements(es) \o m \o t :
        es \in {<<>>} \cup [1..1 -> SdElements],
        m \in SdMalformedElements,
        t \in {Bytes(<<>>), Bytes(<<" ", "m", "s", "g">>), Bytes(<<"[", "b", " ", "y", "=", "\"", "2", "\"", "]", " ", "m", "s", "g">>)}}

TruncBase ==
    Bytes(<<"<", "3", "9", ">", "1", " ", "2", "0", "1", "8", "-", "0", "5", "-", "1", "5", "T", "2", "0", ":", "5", "6", ":", "5", "8", "+", "0", "0", ":", "0", "0", " ", "w", "e", "b", "1", "w", "e", "s", "t", " ", "a", "p", "p", " ", "7", "7", " ", "I", "D", "4", "7", " ", "[", "m", "e", "t", "a", " ", "s", "e", "q", "u", "e", "n", "c", "e", "I", "d", "=", "\"", "2", "8", "\"", "]", "[", "e", "]", " ", "m", "s", "g">>)

\* Every prefix of TruncBase
TruncInputs == {SubSeq(TruncBase, 1, n) : n \in 0..Len(TruncBase)}

MessageInputs ==
    PriInputs \cup VersionInputs \cup TimestampInputs \cup TermInputs
    \cup ProcIdInputs \cup SdInputs \cup SdListInputs \cup SdBareInputs
    \cup SdMalformedInputs
    \cup TruncInputs

\* The buffers of the direct calls of parse_timestamp
DirectInputs == TimestampTexts

Builds == {"debug", "release"}

(***************************************************************************)
(* The specification of the rfc5424 module                                 *)
(***************************************************************************)

Init ==
    /\ build \in Builds
    /\ \/ call = "parse_message" /\ buf \in MessageInputs /\ pc = "pri"
       \/ call = "parse_timestamp" /\ buf \in DirectInputs /\ pc = "parse_timestamp"
    /\ offset = 0
    /\ mark = 0
    /\ outcome = "running"
    /\ error = <<>>
    /\ message = NoMessage

Next ==
    \/ ParsePri
    \/ ParseVersion
    \/ ParseTimestamp
    \/ ParseHostname
    \/ ParseAppname
    \/ ParseProcid
    \/ ParseMsgid
    \/ ParseStructuredData
    \/ ParseMsg
    \/ CallParseTimestamp

Spec == Init /\ [][Next]_vars

(***************************************************************************)
(* timestamp.rs: parse_timestamp_rfc3339                                   *)
(***************************************************************************)

\* buf.get(i): None past the end
Get(b, i) == IF i < Len(b) THEN Some(At(b, i)) ELSE None

\* timestamp.rs has its own copies of the two digit decoders
rfc3339_convert_2_digits(digits) ==
    LET chunk == digits[1] + 256 * digits[2]
        lower == (chunk \div 256) % 16
        upper == (chunk % 16) * 10
    IN  lower + upper

rfc3339_convert_4_digits(digits) ==
    LET lo == digits[1] + 256 * digits[2]
        hi == digits[3] + 256 * digits[4]
        chunk_lo == ((lo \div 256) % 16) + (lo % 16) * 10
        chunk_hi == ((hi \div 256) % 16) + (hi % 16) * 10
        lower == chunk_hi % 256
        upper == (chunk_lo % 256) * 100
    IN  lower + upper
\* The Julian calendar: every fourth year is a leap year
max_days_julian(year, month) ==
    IF month \in {1, 3, 5, 7, 8, 10, 12} THEN 31
    ELSE IF month \in {4, 6, 9, 11} THEN 30
    ELSE IF month = 2 THEN (IF year % 4 = 0 THEN 29 ELSE 28)
    ELSE 0

\* parse_date: the `match month` that gives max_days, 0 for no such month
max_days(year, month) ==
    IF month \in {1, 3, 5, 7, 8, 10, 12} THEN 31
    ELSE IF month \in {4, 6, 9, 11} THEN 30
    ELSE IF month = 2
         THEN IF year % 4 = 0 /\ (year % 100 # 0 \/ year % 400 = 0) THEN 29 ELSE 28
    ELSE 0

parse_date(b) ==
    IF Len(b) < 10 THEN Fail(Err("TimestampTooShort"), 0)
    ELSE IF At(b, 4) # Ord["-"] THEN Fail(Err("InvalidCharDateTimeSep"), 0)
    ELSE IF At(b, 7) # Ord["-"] THEN Fail(Err("InvalidCharDateTimeSep"), 0)
    ELSE
        LET year == rfc3339_convert_4_digits(Slice(b, 0, 4))
            month == rfc3339_convert_2_digits(Slice(b, 5, 7))
            day == rfc3339_convert_2_digits(Slice(b, 8, 10))
        IN
        IF max_days(year, month) = 0 THEN Fail(Err("OutOfRangeMonth"), 0)
        ELSE IF day < 1 \/ day > max_days(year, month)
             THEN Fail(Err("OutOfRangeDay"), 0)
        ELSE Ok(10, [year |-> year, month |-> month, day |-> day])

\* RFC 3339 alone: only 'T' and 't' between date and time
date_time_separator_strict(b) ==
    IF Get(b, 10) \in {Some(Ord["T"]), Some(Ord["t"])}
    THEN Ok(11, None)
    ELSE Fail(Err("InvalidCharDateTimeSep"), 10)

\* parse_timestamp_rfc3339: the separator between date and time
date_time_separator(b) ==
    IF Get(b, 10) \in {Some(Ord["T"]), Some(Ord["t"]), Some(Ord[" "]), Some(Ord["_"])}
    THEN Ok(11, None)
    ELSE Fail(Err("InvalidCharDateTimeSep"), 10)

\* A fraction loop that keeps six digits and drops the rest
RECURSIVE rfc3339_fraction_loop_micro(_, _, _, _)
rfc3339_fraction_loop_micro(b, from, i, nano_second) ==
    LET c == Get(b, from + i) IN
    IF c = None \/ ~is_ascii_digit(c[1]) THEN <<i, nano_second>>
    ELSE
        LET acc == IF i < 6 THEN nano_second * 10 + (c[1] - Ord["0"]) ELSE nano_second IN
        IF i + 1 > 9 THEN <<i + 1, acc>>
        ELSE rfc3339_fraction_loop_micro(b, from, i + 1, acc)

\* The fraction loop of parse_time_without_timezone from digit i on; `from`
\* is offset + length.  Returns <<i, nano_second>>, i > 9 for too long.
RECURSIVE rfc3339_fraction_loop(_, _, _, _)
rfc3339_fraction_loop(b, from, i, nano_second) ==
    LET c == Get(b, from + i) IN
    IF c = None \/ ~is_ascii_digit(c[1]) THEN <<i, nano_second>>
    ELSE
        LET acc == IF i < 9 THEN nano_second * 10 + (c[1] - Ord["0"]) ELSE nano_second IN
        IF i + 1 > 9 THEN <<i + 1, acc>>
        ELSE rfc3339_fraction_loop(b, from, i + 1, acc)

\* A time of day that lets the leap second 60 through
parse_time_without_timezone_leap_second(b, off) ==
    IF off > Len(b) THEN Panic(off)
    ELSE IF Len(b) - off < 5 THEN Fail(Err("TimestampTooShort"), off)
    ELSE
        LET hour == rfc3339_convert_2_digits(Slice(b, off, off + 2))
            minute == rfc3339_convert_2_digits(Slice(b, off + 3, off + 5))
        IN
        IF hour > 23 THEN Fail(Err("OutOfRangeHour"), off)
        ELSE IF At(b, off + 2) # Ord[":"] THEN Fail(Err("InvalidCharTimeSep"), off)
        ELSE IF minute > 59 THEN Fail(Err("OutOfRangeMinute"), off)
        ELSE IF Get(b, off + 5) # Some(Ord[":"]) THEN Ok(off + 5, <<hour, minute, 0, 0>>)
        \* &buf[offset + 6..offset + 8] past the end of the buffer
        ELSE IF off + 8 > Len(b) THEN Panic(off)
        ELSE
            LET second == rfc3339_convert_2_digits(Slice(b, off + 6, off + 8))
                frac_sep == Get(b, off + 8)
            IN
            IF second > 60 THEN Fail(Err("OutOfRangeSecond"), off)
            ELSE IF frac_sep \notin {Some(Ord["."]), Some(Ord[","])}
                 THEN Ok(off + 8, <<hour, minute, second, 0>>)
            ELSE
                LET f == rfc3339_fraction_loop(b, off + 9, 0, 0)
                    i == f[1]
                IN
                IF i > 9 THEN Fail(Err("SecondFractionTooLong"), off)
                ELSE IF i = 0 THEN Fail(Err("SecondFractionMissing"), off)
                ELSE Ok(off + 9 + i,
                        <<hour, minute, second,
                          IF i < 9 THEN f[2] * Pow10(9 - i) ELSE f[2]>>)

\* parse_time_without_timezone(buf, offset); the value is
\* <<hour, minute, second, nano_second>> and the cursor offset + length
parse_time_without_timezone(b, off) ==
    IF off > Len(b) THEN Panic(off)
    ELSE IF Len(b) - off < 5 THEN Fail(Err("TimestampTooShort"), off)
    ELSE
        LET hour == rfc3339_convert_2_digits(Slice(b, off, off + 2))
            minute == rfc3339_convert_2_digits(Slice(b, off + 3, off + 5))
        IN
        IF hour > 23 THEN Fail(Err("OutOfRangeHour"), off)
        ELSE IF At(b, off + 2) # Ord[":"] THEN Fail(Err("InvalidCharTimeSep"), off)
        ELSE IF minute > 59 THEN Fail(Err("OutOfRangeMinute"), off)
        ELSE IF Get(b, off + 5) # Some(Ord[":"]) THEN Ok(off + 5, <<hour, minute, 0, 0>>)
        \* &buf[offset + 6..offset + 8] past the end of the buffer
        ELSE IF off + 8 > Len(b) THEN Panic(off)
        ELSE
            LET second == rfc3339_convert_2_digits(Slice(b, off + 6, off + 8))
                frac_sep == Get(b, off + 8)
            IN
            IF second > 59 THEN Fail(Err("OutOfRangeSecond"), off)
            ELSE IF frac_sep \notin {Some(Ord["."]), Some(Ord[","])}
                 THEN Ok(off + 8, <<hour, minute, second, 0>>)
            ELSE
                LET f == rfc3339_fraction_loop(b, off + 9, 0, 0)
                    i == f[1]
                IN
                IF i > 9 THEN Fail(Err("SecondFractionTooLong"), off)
                ELSE IF i = 0 THEN Fail(Err("SecondFractionMissing"), off)
                ELSE Ok(off + 9 + i,
                        <<hour, minute, second,
                          IF i < 9 THEN f[2] * Pow10(9 - i) ELSE f[2]>>)

\* get_digit!(buf, index, error): None stands for the early return
get_digit(b, i) ==
    LET c == Get(b, i) IN
    IF c # None /\ is_ascii_digit(c[1]) THEN Some(c[1] - Ord["0"]) ELSE None

Abs(n) == IF n < 0 THEN -n ELSE n

\* An offset that forgets its sign
parse_time_offset_unsigned(b, position, sign) ==
    LET h1 == get_digit(b, position)
        h2 == get_digit(b, position + 1)
        c == Get(b, position + 2)
    IN
    IF h1 = None \/ h2 = None THEN Fail(Err("InvalidCharTzHour"), position)
    ELSE IF c # Some(Ord[":"]) /\ (c = None \/ ~is_ascii_digit(c[1]))
         THEN Fail(Err("InvalidCharTzMinute"), position)
    ELSE
        LET colon == c = Some(Ord[":"])
            pos2 == IF colon THEN position + 3 ELSE position + 2
            m1 == IF colon THEN get_digit(b, pos2) ELSE Some(c[1] - Ord["0"])
            m2 == get_digit(b, pos2 + 1)
        IN
        IF m1 = None \/ m2 = None THEN Fail(Err("InvalidCharTzMinute"), pos2)
        ELSE
            LET minute_seconds == m1[1] * 600 + m2[1] * 60
                offset_val == (h1[1] * 36000 + h2[1] * 3600 + minute_seconds)
            IN
            IF minute_seconds >= 3600 THEN Fail(Err("OutOfRangeTzMinute"), pos2)
            ELSE IF Abs(offset_val) >= 24 * 3600
                 THEN Fail(Err("OutOfRangeTimezone"), pos2)
            ELSE Ok(pos2 + 2, Some(offset_val))

\* parse_time from `let sign = match next_char` on: the offset after a sign
\* that ended just before `position`
parse_time_offset(b, position, sign) ==
    LET h1 == get_digit(b, position)
        h2 == get_digit(b, position + 1)
        c == Get(b, position + 2)
    IN
    IF h1 = None \/ h2 = None THEN Fail(Err("InvalidCharTzHour"), position)
    ELSE IF c # Some(Ord[":"]) /\ (c = None \/ ~is_ascii_digit(c[1]))
         THEN Fail(Err("InvalidCharTzMinute"), position)
    ELSE
        LET colon == c = Some(Ord[":"])
            pos2 == IF colon THEN position + 3 ELSE position + 2
            m1 == IF colon THEN get_digit(b, pos2) ELSE Some(c[1] - Ord["0"])
            m2 == get_digit(b, pos2 + 1)
        IN
        IF m1 = None \/ m2 = None THEN Fail(Err("InvalidCharTzMinute"), pos2)
        ELSE
            LET minute_seconds == m1[1] * 600 + m2[1] * 60
                offset_val == sign * (h1[1] * 36000 + h2[1] * 3600 + minute_seconds)
            IN
            IF minute_seconds >= 3600 THEN Fail(Err("OutOfRangeTzMinute"), pos2)
            ELSE IF Abs(offset_val) >= 24 * 3600
                 THEN Fail(Err("OutOfRangeTimezone"), pos2)
            ELSE Ok(pos2 + 2, Some(offset_val))

\* A parse_time that leaves what follows the offset unread
parse_time_prefix(b, off) ==
    LET t == parse_time_without_timezone(b, off) IN
    IF t.kind # "ok" THEN t
    ELSE
        LET position == t.offset
            next_char == Get(b, position)
            tz == IF next_char = None THEN Ok(position, None)
                  ELSE IF next_char[1] \in {Ord["Z"], Ord["z"]}
                       THEN Ok(position + 1, Some(0))
                  ELSE IF next_char[1] = Ord["+"]
                       THEN parse_time_offset(b, position + 1, 1)
                  ELSE IF next_char[1] = Ord["-"]
                       THEN parse_time_offset(b, position + 1, -1)
                  ELSE IF next_char[1] = 226
                       THEN IF Get(b, position + 1) # Some(136)
                               \/ Get(b, position + 2) # Some(146)
                            THEN Fail(Err("InvalidCharTzSign"), position + 1)
                            ELSE parse_time_offset(b, position + 3, -1)
                  ELSE Fail(Err("InvalidCharTzSign"), position + 1)
        IN
        IF tz.kind # "ok" THEN tz
        ELSE Ok(tz.offset, t.val \o <<tz.val>>)

\* parse_time(buf, offset): the value is
\* <<hour, minute, second, nano_second, tz_offset>>
parse_time(b, off) ==
    LET t == parse_time_without_timezone(b, off) IN
    IF t.kind # "ok" THEN t
    ELSE
        LET position == t.offset
            next_char == Get(b, position)
            tz == IF next_char = None THEN Ok(position, None)
                  ELSE IF next_char[1] \in {Ord["Z"], Ord["z"]}
                       THEN Ok(position + 1, Some(0))
                  ELSE IF next_char[1] = Ord["+"]
                       THEN parse_time_offset(b, position + 1, 1)
                  ELSE IF next_char[1] = Ord["-"]
                       THEN parse_time_offset(b, position + 1, -1)
                  ELSE IF next_char[1] = 226
                       THEN IF Get(b, position + 1) # Some(136)
                               \/ Get(b, position + 2) # Some(146)
                            THEN Fail(Err("InvalidCharTzSign"), position + 1)
                            ELSE parse_time_offset(b, position + 3, -1)
                  ELSE Fail(Err("InvalidCharTzSign"), position + 1)
        IN
        IF tz.kind # "ok" THEN tz
        ELSE IF Len(b) > tz.offset THEN Fail(Err("ExtraCharacters"), tz.offset)
        ELSE Ok(tz.offset, t.val \o <<tz.val>>)

\* parse_timestamp_rfc3339 after parse_time: the offset, then the two
\* expect() calls on the date and the time of day
construct(b, off, date, time) ==
    LET secs == IF time[5] = None THEN 0 ELSE time[5][1] IN
    IF ~east_opt(secs) THEN Fail(Err("OutOfRangeTimezone"), off)
    ELSE IF ~from_ymd_opt(date.year, date.month, date.day) THEN Panic(off)
    ELSE IF ~and_hms_nano_opt(time[1], time[2], time[3], time[4]) THEN Panic(off)
    ELSE Ok(off, DateTime(date.year, date.month, date.day,
                          time[1], time[2], time[3], time[4], secs))

ParseDate ==
    LET r == parse_date(buf) IN
    Step("parse_date", "separator", r, [message EXCEPT !.timestamp = <<r.val>>])

DateTimeSeparator ==
    LET r == date_time_separator(buf) IN
    Step("separator", "parse_time", r, message)

ParseTime ==
    LET r == parse_time(buf, offset) IN
    Step("parse_time", "construct", r,
         [message EXCEPT !.timestamp = <<message.timestamp[1], r.val>>])

Construct ==
    LET r == construct(buf, offset, message.timestamp[1], message.timestamp[2]) IN
    Step("construct", "done", r, [message EXCEPT !.timestamp = <<r.val>>])

\* The largest year four digits write
MaxYear == 9999

\* February 29 and 30 of every year
FebruaryTexts ==
    {TsText(y, 2, d, 12, 0, 27, Bytes(<<"Z">>)) : y \in 0..MaxYear, d \in {29, 30}}

\* What may follow the time of day
Rfc3339Tails ==
    { Bytes(<<>>),
      Bytes(<<"Z">>),
      Bytes(<<"z">>),
      Bytes(<<"+", "0", "5", ":", "0", "0">>),
      Bytes(<<"-", "0", "8", "0", "0">>),
      Bytes(<<"+", "0", "5", "4", "5">>),
      Bytes(<<"+", "0", "5", ":", "4">>),
      Bytes(<<"+", "0", "5", "4">>),
      Bytes(<<"+", "0", "5">>),
      Bytes(<<"+", "5">>),
      Bytes(<<"+">>),
      Bytes(<<"-">>),
      Bytes(<<"+", "0", "5", ":", "6", "0">>),
      Bytes(<<"+", "0", "5", "6", "0">>),
      Bytes(<<"+", "2", "4", ":", "0", "0">>),
      Bytes(<<"-", "2", "3", ":", "5", "9">>),
      Bytes(<<"+", "2", "3", ":", "5", "9">>),
      Bytes(<<"-", "2", "4", ":", "0", "0">>),
      Bytes(<<"+", "9", "9", ":", "9", "9">>),
      Bytes(<<"Z", "x">>),
      Bytes(<<"+", "0", "5", ":", "0", "0", "x">>),
      Bytes(<<" ">>),
      Bytes(<<"x">>),
      Bytes(<<"+", "a", "5", ":", "0", "0">>),
      Bytes(<<"+", "0", "a", ":", "0", "0">>),
      Bytes(<<"+", "0", "5", ":", "a", "0">>),
      Bytes(<<"+", "0", "5", ":", "0", "a">>),
      Bytes(<<"+", "0", "5", "a", "0">>) }
\* Times of day, some cut short
Rfc3339Times ==
    { Bytes(<<"2", "3", ":", "1", "6">>),
      Bytes(<<"2", "3", ":", "1", "6", ":", "0", "9">>),
      Bytes(<<"2", "3", ":", "1", "6", ":", "0", "9", ".", "5">>),
      Bytes(<<"2", "3", ":", "1", "6", ":">>),
      Bytes(<<"2", "3", ":", "1", "6", ":", "0">>),
      Bytes(<<"2", "3", ":", "1", "6", ":", "0", "9", ".">>),
      Bytes(<<"2", "3", ":", "1">>),
      Bytes(<<"2", "3", ":">>),
      Bytes(<<"2", "4", ":", "0", "0">>),
      Bytes(<<"2", "3", ":", "6", "0">>),
      Bytes(<<"2", "3", ":", "1", "6", ":", "6", "0">>),
      Bytes(<<"2", "3", "-", "1", "6">>),
      Bytes(<<"2", "3", ":", "1", "6", "-", "0", "9">>) }

\* U+2212 MINUS as a negative sign
MinusSign == <<226, 136, 146>>

\* One timestamp cut short at every length
Rfc3339Prefixes == {SubSeq(ReplaceBase, 1, n) : n \in 0..Len(ReplaceBase)}

Rfc3339Texts ==
    TimestampTexts \cup FebruaryTexts \cup Rfc3339Prefixes
    \cup {Bytes(<<"2", "0", "1", "5", "-", "0", "2", "-", "1", "8", "T">>) \o t \o z :
            t \in Rfc3339Times, z \in Rfc3339Tails}
    \cup {TsText(2015, 2, 18, 23, 16, 9, SubSeq(MinusSign, 1, n) \o z) :
            n \in 1..3,
            z \in {Dec2(5) \o Bytes(<<":">>) \o Dec2(0), Dec2(24) \o Dec2(0), <<>>}}

\* No arithmetic of timestamp.rs can overflow: the build makes no difference.
InitRfc3339 ==
    /\ build = "release"
    /\ call = "parse_timestamp_rfc3339"
    /\ buf \in Rfc3339Texts
    /\ pc = "parse_date"
    /\ offset = 0
    /\ mark = 0
    /\ outcome = "running"
    /\ error = <<>>
    /\ message = NoMessage

NextRfc3339 ==
    \/ ParseDate
    \/ DateTimeSeparator
    \/ ParseTime
    \/ Construct

SpecRfc3339 == InitRfc3339 /\ [][NextRfc3339]_vars

(***************************************************************************)
(* structured_data.rs: PartialEq for StructuredElement                     *)
(***************************************************************************)

\* Ord for str: byte by byte, a proper prefix first
RECURSIVE str_le(_, _)
str_le(a, b) ==
    IF Len(a) = 0 THEN TRUE
    ELSE IF Len(b) = 0 THEN FALSE
    ELSE IF a[1] < b[1] THEN TRUE
    ELSE IF a[1] > b[1] THEN FALSE
    ELSE str_le(Tail(a), Tail(b))

\* Ord for (S, S): the name first, then the value
param_le(p, q) == IF p[1] = q[1] THEN str_le(p[2], q[2]) ELSE str_le(p[1], q[1])

RECURSIVE sort_insert(_, _)
sort_insert(sorted, p) ==
    IF Len(sorted) = 0 THEN <<p>>
    ELSE IF param_le(p, Head(sorted)) THEN <<p>> \o sorted
    ELSE <<Head(sorted)>> \o sort_insert(Tail(sorted), p)

\* Vec::sort
RECURSIVE sort(_)
sort(params) ==
    IF Len(params) = 0 THEN <<>>
    ELSE sort_insert(sort(Tail(params)), Head(params))

\* params1.iter().zip(params2).all(..): zip ends with the shorter of the two
RECURSIVE zip_all(_, _)
zip_all(params1, params2) ==
    IF Len(params1) = 0 \/ Len(params2) = 0 THEN TRUE
    ELSE /\ Head(params1)[1] = Head(params2)[1]
         /\ Head(params1)[2] = Head(params2)[2]
         /\ zip_all(Tail(params1), Tail(params2))

\* The operands of a comparison and its locals
Comparison(self, other) ==
    [self |-> self, other |-> other, params1 |-> <<>>, params2 |-> <<>>,
     result |-> None]

\* `if self.id.as_ref() != other.id.as_ref() { return false; }`
EqCompareIds ==
    /\ pc = "eq"
    /\ outcome = "running"
    /\ IF message.self.id # message.other.id
       THEN /\ pc' = "done"
            /\ outcome' = "ok"
            /\ message' = [message EXCEPT !.result = Some(FALSE)]
       ELSE /\ pc' = "sort"
            /\ UNCHANGED <<outcome, message>>
    /\ UNCHANGED <<call, build, buf, offset, mark, error>>

\* The two clones, sorted
EqSort ==
    /\ pc = "sort"
    /\ outcome = "running"
    /\ pc' = "zip"
    /\ message' = [message EXCEPT !.params1 = sort(message.self.params),
                                  !.params2 = sort(message.other.params)]
    /\ UNCHANGED <<call, build, buf, offset, mark, outcome, error>>

EqZipAll ==
    /\ pc = "zip"
    /\ outcome = "running"
    /\ pc' = "done"
    /\ outcome' = "ok"
    /\ message' = [message EXCEPT
                     !.result = Some(zip_all(message.params1, message.params2))]
    /\ UNCHANGED <<call, build, buf, offset, mark, error>>

\* The most parameters of an element that is compared
MaxParams == 2

EqIds == {Bytes(<<"a">>), Bytes(<<"b">>)}

EqParams ==
    { <<Bytes(<<"x">>), Bytes(<<"1">>)>>,
      <<Bytes(<<"x">>), Bytes(<<"2">>)>>,
      <<Bytes(<<"y">>), Bytes(<<"1">>)>> }

EqParamLists == {<<>>} \cup UNION {[1..n -> EqParams] : n \in 1..MaxParams}

EqElements == {StructuredElement(id, params) : id \in EqIds, params \in EqParamLists}

InitEq ==
    /\ build = "release"
    /\ call = "eq"
    /\ buf = <<>>
    /\ pc = "eq"
    /\ offset = 0
    /\ mark = 0
    /\ outcome = "running"
    /\ error = <<>>
    /\ message \in {Comparison(self, other) : self \in EqElements, other \in EqElements}

NextEq ==
    \/ EqCompareIds
    \/ EqSort
    \/ EqZipAll

SpecEq == InitEq /\ [][NextEq]_vars

(***************************************************************************)
(* rfc5424.rs: convert_2_digits and convert_4_digits called alone, as      *)
(* tests::test_convert_2_digits and tests::test_convert_4_digits call them *)
(***************************************************************************)

\* The bytes of format!("{:4}", i): digits, with spaces where digits lack
DigitBytes == {Ord[" "]} \cup {Ord["0"] + d : d \in 0..9}

ConvertInputs == [1..2 -> DigitBytes] \cup [1..4 -> DigitBytes]

Convert2Digits ==
    /\ call = "convert_digits"
    /\ pc = "convert"
    /\ Len(buf) = 2
    /\ pc' = "done"
    /\ outcome' = "ok"
    /\ message' = Some(convert_2_digits(buf))
    /\ UNCHANGED <<call, build, buf, offset, mark, error>>

Convert4Digits ==
    /\ call = "convert_digits"
    /\ pc = "convert"
    /\ Len(buf) = 4
    /\ pc' = "done"
    /\ outcome' = "ok"
    /\ message' = Some(convert_4_digits(buf))
    /\ UNCHANGED <<call, build, buf, offset, mark, error>>

InitConvert ==
    /\ build = "release"
    /\ call = "convert_digits"
    /\ buf \in ConvertInputs
    /\ pc = "convert"
    /\ offset = 0
    /\ mark = 0
    /\ outcome = "running"
    /\ error = <<>>
    /\ message = None

NextConvert ==
    \/ Convert2Digits
    \/ Convert4Digits

SpecConvert == InitConvert /\ [][NextConvert]_vars

(***************************************************************************)
(* What the inputs say, read character by character                        *)
(***************************************************************************)

Finished == outcome # "running"

\* The first index at or after i of byte c, Len(b) when there is none
RECURSIVE RefFind(_, _, _)
RefFind(b, i, c) ==
    IF i >= Len(b) THEN Len(b)
    ELSE IF b[i + 1] = c THEN i
    ELSE RefFind(b, i + 1, c)

RefAllDigits(ds) == \A i \in 1..Len(ds) : ds[i] \in 48..57

\* The number a run of at most nine digits writes
RECURSIVE RefValue(_)
RefValue(ds) ==
    IF Len(ds) = 0 THEN 0
    ELSE 10 * RefValue(SubSeq(ds, 1, Len(ds) - 1)) + (ds[Len(ds)] - 48)

\* The text between '<' and the first '>'
RefPriText(b) == SubSeq(b, 2, RefFind(b, 1, Ord[">"]))

\* '<', one to three digits writing at most 191, '>'
RefPriWellFormed(b) ==
    /\ Len(b) >= 1
    /\ b[1] = Ord["<"]
    /\ RefFind(b, 1, Ord[">"]) < Len(b)
    /\ Len(RefPriText(b)) \in 1..3
    /\ RefAllDigits(RefPriText(b))
    /\ RefValue(RefPriText(b)) <= 191

\* Everything after the first '>'
RefAfterPri(b) == SubSeq(b, RefFind(b, 1, Ord[">"]) + 2, Len(b))

(***************************************************************************)
(* C1                                                                      *)
(***************************************************************************)

\* C1: for every priority p in 0..191 written between '<' and '>' of a
\* message whose other fields are valid, parse_message succeeds, with
\* severity p & 7 and facility p >> 3 read off the tables EMERG..DEBUG and
\* KERN..LOCAL7.
C1_PriorityDecomposition ==
    (/\ call = "parse_message"
     /\ RefPriWellFormed(buf)
     /\ RefAfterPri(buf) \in {Bytes(<<"1", " ">>) \o RestNil,
                              Bytes(<<"1", " ">>) \o RestExample})
    => LET p == RefValue(RefPriText(buf)) IN
       /\ outcome \in {"running", "ok"}
       /\ pc = "done" => outcome = "ok"
       /\ pc # "pri" =>
            /\ message.severity = <<SeverityNames[(p % 8) + 1]>>
            /\ message.facility = <<FacilityNames[(p \div 8) + 1]>>

\* The largest priority, 191 = LOCAL7.DEBUG, decoded in a full message
C1_Witness ==
    /\ call = "parse_message"
    /\ buf = Bytes(<<"<", "1", "9", "1", ">", "1", " ">>) \o RestExample
    /\ pc = "done"
    /\ outcome = "ok"
    /\ message.severity = <<"DEBUG">>
    /\ message.facility = <<"LOCAL7">>

(***************************************************************************)
(* C2                                                                      *)
(***************************************************************************)

\* C2: parse_message never returns a Message for an input whose PRI part is
\* not '<', one to three digits of value at most 191, '>'.
C2_MalformedPriRejected ==
    (call = "parse_message" /\ outcome = "ok") => RefPriWellFormed(buf)

(***************************************************************************)
(* C3                                                                      *)
(***************************************************************************)

\* The index of the byte after the '>' of the priority
RefVersionAt(b) == RefFind(b, 1, Ord[">"]) + 1

\* C3: once the priority is read, an input whose byte after '>' is not a
\* digit, or whose byte after that digit is not a space, returns an error,
\* and it is the version step that returns it.
C3_VersionOneDigitThenSpace ==
    (/\ call = "parse_message"
     /\ pc # "pri"
     /\ RefVersionAt(buf) < Len(buf)
     /\ \/ ~(At(buf, RefVersionAt(buf)) \in 48..57)
        \/ /\ RefVersionAt(buf) + 1 < Len(buf)
           /\ At(buf, RefVersionAt(buf) + 1) # 32)
    => /\ pc = "version"
       /\ outcome \in {"running", "err"}
       /\ Finished =>
            /\ message = NoMessage
            /\ error = IF At(buf, RefVersionAt(buf)) \in 48..57
                       THEN <<"ExpectSeparator">>
                       ELSE <<"ExpectedChar", At(buf, RefVersionAt(buf))>>

\* The RFC 3164 line of test_bad_match is refused at its 'F'
C3_Witness ==
    /\ buf = Rfc3164Line
    /\ pc = "version"
    /\ outcome = "err"
    /\ error = <<"ExpectedChar", Ord["F"]>>

(***************************************************************************)
(* C4                                                                      *)
(***************************************************************************)

\* C4: '<P>V - - - - - -' parses with timestamp, hostname, appname, procid
\* and msgid absent, no structured data and an empty msg; '<1>1 - - - - - -'
\* has facility KERN and severity ALERT.
C4_AllNil ==
    (/\ call = "parse_message"
     /\ RefPriWellFormed(buf)
     /\ Len(RefAfterPri(buf)) = Len(RestNil) + 2
     /\ RefAfterPri(buf)[1] \in 48..57
     /\ SubSeq(RefAfterPri(buf), 2, Len(RefAfterPri(buf))) = Bytes(<<" ">>) \o RestNil)
    => /\ outcome \in {"running", "ok"}
       /\ pc = "done" =>
            /\ outcome = "ok"
            /\ message.version = <<RefAfterPri(buf)[1] - 48>>
            /\ message.timestamp = None
            /\ message.hostname = None
            /\ message.appname = None
            /\ message.procid = None
            /\ message.msgid = None
            /\ message.structured_data = <<>>
            /\ message.msg = <<>>
            /\ offset = Len(buf)
            /\ RefPriText(buf) = Bytes(<<"1">>) =>
                 message.facility = <<"KERN">> /\ message.severity = <<"ALERT">>

C4_Witness ==
    /\ buf = Bytes(<<"<", "1", ">", "1", " ">>) \o RestNil
    /\ pc = "done"
    /\ outcome = "ok"
    /\ message.facility = <<"KERN">>
    /\ message.timestamp = None
    /\ message.msg = <<>>

(***************************************************************************)
(* C5                                                                      *)
(***************************************************************************)

\* The fields of b, cut at every space from index i on
RECURSIVE RefSplit(_, _)
RefSplit(b, i) ==
    LET j == RefFind(b, i, 32) IN
    IF j >= Len(b) THEN <<SubSeq(b, i + 1, Len(b))>>
    ELSE <<SubSeq(b, i + 1, j)>> \o RefSplit(b, j + 1)

\* A field that is a '-' followed by more
RefDashed(f) == Len(f) > 1 /\ f[1] = Ord["-"]

\* What HOSTNAME, APP-NAME and MSGID text f decodes to
RefTerm(f) == IF f = Bytes(<<"-">>) THEN None ELSE Some(f)

\* C5: a HOSTNAME, APP-NAME, PROCID or MSGID that begins with '-' and goes
\* on to the next space is that field's value, and the message parses.
C5_DashPrefixedField ==
    (/\ call = "parse_message"
     /\ Len(buf) > Len(TermHead)
     /\ SubSeq(buf, 1, Len(TermHead)) = TermHead
     /\ Finished
     /\ LET f == RefSplit(buf, 0) IN
        /\ Len(f) = 7
        /\ \A k \in 3..6 : Len(f[k]) > 0
        /\ \E k \in 3..6 : RefDashed(f[k]))
    => LET f == RefSplit(buf, 0) IN
       /\ outcome = "ok"
       /\ message.hostname = RefTerm(f[3])
       /\ message.appname = RefTerm(f[4])
       /\ message.msgid = RefTerm(f[6])
       /\ RefDashed(f[5]) =>
            message.procid = Some([variant |-> "Name", pid |-> 0, name |-> f[5]])

(***************************************************************************)
(* C6                                                                      *)
(***************************************************************************)

\* rfc5424::parse_timestamp was called on its own and returned a timestamp
RefDirectOk == call = "parse_timestamp" /\ outcome = "ok"

\* parse_message has just read a timestamp that is not '-': it began at
\* mark, and the cursor is one past the separator that follows it
RefFieldOk ==
    /\ call = "parse_message"
    /\ pc = "hostname"
    /\ outcome = "running"
    /\ message.timestamp # None

\* Index cur is just after a 'Z', a 'z', or the MM of a signed HH:MM
RefAfterLastCharacter(b, cur) ==
    /\ cur >= 1
    /\ cur <= Len(b)
    /\ \/ At(b, cur - 1) \in {Ord["Z"], Ord["z"]}
       \/ /\ cur >= 6
          /\ At(b, cur - 6) \in {Ord["+"], Ord["-"]}
          /\ At(b, cur - 3) = Ord[":"]

ZuluMessage ==
    Bytes(<<"<", "1", ">", "1", " ">>) \o TsText(2015, 1, 1, 0, 0, 0, Bytes(<<"Z">>))
    \o Bytes(<<" ", "h", "o", "s", "t", " ", "-", " ", "-", " ", "-", " ", "-">>)

\* C6: whenever parse_timestamp succeeds the cursor is just after the last
\* character of the timestamp, the 'Z' or the last digit of the offset, and
\* '<1>1 2015-01-01T00:00:00Z host - - - -' parses with that timestamp.
C6_CursorAfterTimestamp ==
    /\ RefDirectOk => RefAfterLastCharacter(buf, offset)
    /\ RefFieldOk => RefAfterLastCharacter(buf, offset - 1)
    /\ (call = "parse_message" /\ buf = ZuluMessage /\ Finished) =>
         /\ outcome = "ok"
         /\ message.timestamp = Some(DateTime(2015, 1, 1, 0, 0, 0, 0, 0))

(***************************************************************************)
(* C7                                                                      *)
(***************************************************************************)

\* The indices, from the start s of a timestamp, where a digit is written
RefDateTimeDigits(s) ==
    {s + i : i \in {0, 1, 2, 3, 5, 6, 8, 9, 11, 12, 14, 15, 17, 18}}

\* The digits of an offset HH:MM that ends at cur, if there is one
RefOffsetDigits(b, cur) ==
    IF cur >= 6 /\ cur <= Len(b)
       /\ At(b, cur - 6) \in {Ord["+"], Ord["-"]}
       /\ At(b, cur - 3) = Ord[":"]
    THEN {cur - 5, cur - 4, cur - 2, cur - 1}
    ELSE {}

RefDigitsWhereExpected(b, s, cur) ==
    \A i \in RefDateTimeDigits(s) \cup RefOffsetDigits(b, cur) :
        i < Len(b) /\ At(b, i) \in 48..57

\* C7: parse_timestamp returns a timestamp only when every position of
\* YYYY, MM, DD, hh, mm, ss and of the offset's HH and MM holds an ASCII
\* digit.
C7_NonDigitRejected ==
    /\ RefDirectOk => RefDigitsWhereExpected(buf, 0, offset)
    /\ RefFieldOk => RefDigitsWhereExpected(buf, mark, offset - 1)

(***************************************************************************)
(* C8                                                                      *)
(***************************************************************************)

\* Some byte of b at one of the indices is there and is not a digit
RefNonDigit(b, indices) ==
    \E i \in indices : i < Len(b) /\ ~(At(b, i) \in 48..57)

\* The first field of an RFC 3339 text with a byte that is not a digit
RefFirstBadField(b) ==
    IF RefNonDigit(b, {0, 1, 2, 3}) THEN "InvalidCharYear"
    ELSE IF RefNonDigit(b, {5, 6}) THEN "InvalidCharMonth"
    ELSE IF RefNonDigit(b, {8, 9}) THEN "InvalidCharDay"
    ELSE IF RefNonDigit(b, {11, 12}) THEN "InvalidCharHour"
    ELSE IF RefNonDigit(b, {14, 15}) THEN "InvalidCharMinute"
    ELSE IF Len(b) > 16 /\ At(b, 16) = Ord[":"] /\ RefNonDigit(b, {17, 18})
         THEN "InvalidCharSecond"
    ELSE "none"

\* C8: parse_timestamp_rfc3339 fails with InvalidCharYear, InvalidCharMonth,
\* InvalidCharDay, InvalidCharHour, InvalidCharMinute or InvalidCharSecond
\* when a byte of that field is not an ASCII digit.
C8_FieldDiagnostic ==
    (/\ call = "parse_timestamp_rfc3339"
     /\ Finished
     /\ RefFirstBadField(buf) # "none")
    => /\ outcome = "err"
       /\ error = <<RefFirstBadField(buf)>>

(***************************************************************************)
(* C9                                                                      *)
(***************************************************************************)

\* b begins with YYYY-MM-DD, all digits
RefDateWritten(b) ==
    /\ Len(b) >= 10
    /\ b[5] = Ord["-"]
    /\ b[8] = Ord["-"]
    /\ ~RefNonDigit(b, {0, 1, 2, 3, 5, 6, 8, 9})

RefYear(b, s) == RefValue(SubSeq(b, s + 1, s + 4))
RefMonth(b, s) == RefValue(SubSeq(b, s + 6, s + 7))
RefDay(b, s) == RefValue(SubSeq(b, s + 9, s + 10))

RefLeap(y) == y % 4 = 0 /\ (y % 100 # 0 \/ y % 400 = 0)

\* The days of month m of year y in the Gregorian calendar
RefDaysInMonth(y, m) ==
    IF m = 2 THEN (IF RefLeap(y) THEN 29 ELSE 28)
    ELSE <<31, 0, 31, 30, 31, 30, 31, 31, 30, 31, 30, 31>>[m]

\* parse_date has returned
RefDateDecided == ~(pc = "parse_date" /\ outcome = "running")

RefDateRefused(name) ==
    pc = "parse_date" /\ outcome = "err" /\ error = <<name>>

\* C9: in parse_timestamp_rfc3339 a month outside 1..12 fails with
\* OutOfRangeMonth, a day outside 1..max(month, Y) fails with OutOfRangeDay,
\* so Y-02-30 always does, and Y-02-29 is accepted iff
\* Y % 4 = 0 and (Y % 100 # 0 or Y % 400 = 0), for every 4-digit year Y.
C9_LeapYearAndRanges ==
    (/\ call = "parse_timestamp_rfc3339"
     /\ RefDateDecided
     /\ RefDateWritten(buf))
    => LET y == RefYear(buf, 0)
           m == RefMonth(buf, 0)
           d == RefDay(buf, 0)
       IN
       /\ ~(m \in 1..12) => RefDateRefused("OutOfRangeMonth")
       /\ (m \in 1..12 /\ ~(d \in 1..RefDaysInMonth(y, m))) =>
            RefDateRefused("OutOfRangeDay")
       /\ (m \in 1..12 /\ d \in 1..RefDaysInMonth(y, m)) => pc # "parse_date"
       /\ (m = 2 /\ d = 30) => RefDateRefused("OutOfRangeDay")
       /\ (m = 2 /\ d = 29) => (pc # "parse_date" <=> RefLeap(y))
       /\ buf \in FebruaryTexts =>
            /\ outcome # "panic"
            /\ Finished => (outcome = "ok" <=> (d = 29 /\ RefLeap(y)))
            /\ outcome = "ok" =>
                 message.timestamp = <<DateTime(y, 2, 29, 12, 0, 27, 0, 0)>>

\* A century that is a leap year: 2000-02-29 is accepted
C9_Witness ==
    /\ call = "parse_timestamp_rfc3339"
    /\ buf = TsText(2000, 2, 29, 12, 0, 27, Bytes(<<"Z">>))
    /\ pc = "done"
    /\ outcome = "ok"
    /\ message.timestamp = <<DateTime(2000, 2, 29, 12, 0, 27, 0, 0)>>

(***************************************************************************)
(* C10                                                                     *)
(***************************************************************************)

\* A timestamp whose every field is in its range
RefInRange(ts) ==
    /\ ts.month \in 1..12
    /\ ts.day \in 1..RefDaysInMonth(ts.year, ts.month)
    /\ ts.hour \in 0..23
    /\ ts.minute \in 0..59
    /\ ts.second \in 0..59
    /\ ts.nanos \in 0..999999999
    /\ ts.offset > -86400
    /\ ts.offset < 86400

RefHour(b, s) == RefValue(SubSeq(b, s + 12, s + 13))
RefMinute(b, s) == RefValue(SubSeq(b, s + 15, s + 16))
RefSecond(b, s) == RefValue(SubSeq(b, s + 18, s + 19))

\* The seconds east an offset HH:MM ending at cur writes; 0 for 'Z'
RefOffset(b, cur) ==
    IF RefOffsetDigits(b, cur) = {} THEN 0
    ELSE LET secs == RefValue(SubSeq(b, cur - 4, cur - 3)) * 3600
                     + RefValue(SubSeq(b, cur - 1, cur)) * 60
         IN IF At(b, cur - 6) = Ord["-"] THEN 0 - secs ELSE secs

\* ts holds the numbers written from index s to index cur
RefAsWritten(b, s, cur, ts) ==
    /\ ts.year = RefYear(b, s)
    /\ ts.month = RefMonth(b, s)
    /\ ts.day = RefDay(b, s)
    /\ ts.hour = RefHour(b, s)
    /\ ts.minute = RefMinute(b, s)
    /\ ts.second = RefSecond(b, s)
    /\ ts.offset = RefOffset(b, cur)

\* The date and time written at index s name no instant
RefWrittenOutOfRange(b, s) ==
    /\ Len(b) >= s + 19
    /\ ~RefNonDigit(b, RefDateTimeDigits(s))
    /\ \/ ~(RefMonth(b, s) \in 1..12)
       \/ ~(RefDay(b, s) \in 1..RefDaysInMonth(RefYear(b, s), RefMonth(b, s)))
       \/ RefHour(b, s) > 23
       \/ RefMinute(b, s) > 59
       \/ RefSecond(b, s) > 59

\* C10: parse_timestamp, alone or within parse_message, returns a timestamp
\* only with month in 1..12, day in 1..days of that month, hour <= 23,
\* minute <= 59, second <= 59, nanosecond <= 999999999 and an offset under
\* 24 hours; the fields are the numbers written, never clamped or wrapped,
\* and a date or time out of range returns no timestamp.
C10_RangeValidated ==
    /\ RefDirectOk =>
         /\ RefInRange(message.timestamp[1])
         /\ RefDigitsWhereExpected(buf, 0, offset) =>
              RefAsWritten(buf, 0, offset, message.timestamp[1])
    /\ RefFieldOk =>
         /\ RefInRange(message.timestamp[1])
         /\ RefDigitsWhereExpected(buf, mark, offset - 1) =>
              RefAsWritten(buf, mark, offset - 1, message.timestamp[1])
    /\ (call = "parse_timestamp" /\ RefWrittenOutOfRange(buf, 0)) =>
         outcome # "ok"
    /\ RefFieldOk => ~RefWrittenOutOfRange(buf, mark)
    /\ (call = "parse_message" /\ pc = "timestamp" /\ Finished
        /\ RefWrittenOutOfRange(buf, mark)) =>
         outcome = "err" /\ message = NoMessage

\* The leap day 2016-02-29T23:59:59.5Z is returned as written
C10_Witness ==
    /\ RefDirectOk
    /\ buf = TsText(2016, 2, 29, 23, 59, 59, Bytes(<<".", "5", "Z">>))
    /\ message.timestamp = Some(DateTime(2016, 2, 29, 23, 59, 59, 500000000, 0))

(***************************************************************************)
(* C11                                                                     *)
(***************************************************************************)

\* The bytes parse_timestamp_rfc3339 is to take between date and time
RefDateTimeSeparators == {Ord["T"], Ord["t"], Ord[" "], Ord["_"]}

\* The separator step of parse_timestamp_rfc3339 has returned
RefSeparatorDecided ==
    /\ call = "parse_timestamp_rfc3339"
    /\ pc # "parse_date"
    /\ ~(pc = "separator" /\ outcome = "running")

\* C11: after the date, parse_timestamp_rfc3339 takes 'T', 't', space or
\* '_' at index 10 and goes on to the time; any other byte there, or no
\* byte, fails with InvalidCharDateTimeSep.
C11_DateTimeSeparator ==
    /\ RefSeparatorDecided =>
         IF Len(buf) > 10 /\ At(buf, 10) \in RefDateTimeSeparators
         THEN pc # "separator"
         ELSE /\ pc = "separator"
              /\ outcome = "err"
              /\ error = <<"InvalidCharDateTimeSep">>
    /\ (/\ call = "parse_timestamp_rfc3339"
        /\ Finished
        /\ \E c \in RefDateTimeSeparators : buf = Replace(ReplaceBase, 10, c))
       => /\ outcome = "ok"
          /\ message.timestamp =
               <<DateTime(2015, 2, 18, 23, 16, 9, 500000000, 20700)>>

\* '_' between date and time, parsed to the end
C11_Witness ==
    /\ call = "parse_timestamp_rfc3339"
    /\ buf = Replace(ReplaceBase, 10, Ord["_"])
    /\ pc = "done"
    /\ outcome = "ok"

(***************************************************************************)
(* C12                                                                     *)
(***************************************************************************)

\* parse_time has returned
RefTimeDecided ==
    /\ call = "parse_timestamp_rfc3339"
    /\ pc \in {"parse_time", "construct", "done"}
    /\ ~(pc = "parse_time" /\ outcome = "running")

\* parse_time has returned a time
RefTimeOk ==
    RefTimeDecided /\ pc # "parse_time" /\ outcome \in {"running", "ok"}

RefTimeRefused(name) ==
    pc = "parse_time" /\ outcome = "err" /\ error = <<name>>

\* The time parse_timestamp_rfc3339 holds after parse_time:
\* <<hour, minute, second, nanosecond>>
RefTimeHeld ==
    IF pc = "construct"
    THEN SubSeq(message.timestamp[2], 1, 4)
    ELSE <<message.timestamp[1].hour, message.timestamp[1].minute,
           message.timestamp[1].second, message.timestamp[1].nanos>>

\* The offset it holds, in seconds east; a text without offset holds 0
RefZoneHeld ==
    IF pc = "construct"
    THEN (IF message.timestamp[2][5] = None THEN 0 ELSE message.timestamp[2][5][1])
    ELSE message.timestamp[1].offset

\* b writes hh:mm in digits from index 11
RefHourMinuteWritten(b) ==
    /\ Len(b) >= 16
    /\ At(b, 13) = Ord[":"]
    /\ ~RefNonDigit(b, {11, 12, 14, 15})

\* b goes on with :ss in digits
RefSecondWritten(b) ==
    /\ Len(b) >= 19
    /\ At(b, 16) = Ord[":"]
    /\ ~RefNonDigit(b, {17, 18})

\* C12: in parse_timestamp_rfc3339 an hour above 23 fails with
\* OutOfRangeHour and a minute above 59 with OutOfRangeMinute; when the byte
\* after hh:mm is not ':' the second and the nanosecond are 0 and the offset
\* is read at that byte; when it is ':' two digits of seconds are read, and
\* above 59 they fail with OutOfRangeSecond.
C12_OptionalSeconds ==
    (RefTimeDecided /\ RefHourMinuteWritten(buf))
    => LET hh == RefHour(buf, 0)
           mm == RefMinute(buf, 0)
       IN
       IF hh > 23 THEN RefTimeRefused("OutOfRangeHour")
       ELSE IF mm > 59 THEN RefTimeRefused("OutOfRangeMinute")
       ELSE IF Len(buf) = 16
            THEN RefTimeOk /\ RefTimeHeld = <<hh, mm, 0, 0>> /\ RefZoneHeld = 0
       ELSE IF At(buf, 16) # Ord[":"]
            THEN /\ RefTimeOk => RefTimeHeld = <<hh, mm, 0, 0>>
                 /\ (At(buf, 16) \in {Ord["Z"], Ord["z"]} /\ Len(buf) = 17) =>
                      RefTimeOk /\ RefZoneHeld = 0
                 /\ ~(At(buf, 16) \in {Ord["Z"], Ord["z"], Ord["+"], Ord["-"], 226}) =>
                      RefTimeRefused("InvalidCharTzSign")
       ELSE RefSecondWritten(buf) =>
            IF RefSecond(buf, 0) > 59 THEN RefTimeRefused("OutOfRangeSecond")
            ELSE RefTimeOk =>
                   SubSeq(RefTimeHeld, 1, 3) = <<hh, mm, RefSecond(buf, 0)>>

\* 2015-02-18T23:16+05:00, without seconds, parsed to the end
C12_Witness ==
    /\ call = "parse_timestamp_rfc3339"
    /\ buf = SubSeq(ReplaceBase, 1, 16)
             \o Bytes(<<"+", "0", "5", ":", "0", "0">>)
    /\ pc = "done"
    /\ outcome = "ok"
    /\ message.timestamp = <<DateTime(2015, 2, 18, 23, 16, 0, 0, 18000)>>

(***************************************************************************)
(* C13                                                                     *)
(***************************************************************************)

\* The number of digits of b from index i on
RECURSIVE RefDigitRun(_, _)
RefDigitRun(b, i) ==
    IF i < Len(b) /\ At(b, i) \in 48..57 THEN 1 + RefDigitRun(b, i + 1) ELSE 0

\* 10^(9 - n) for n in 1..9
RefScale(n) ==
    <<100000000, 10000000, 1000000, 100000, 10000, 1000, 100, 10, 1>>[n]

\* b writes hh:mm:ss in range and goes on with '.' or ','
RefFractionWritten(b) ==
    /\ RefHourMinuteWritten(b)
    /\ RefSecondWritten(b)
    /\ RefHour(b, 0) <= 23
    /\ RefMinute(b, 0) <= 59
    /\ RefSecond(b, 0) <= 59
    /\ Len(b) >= 20
    /\ At(b, 19) \in {Ord["."], Ord[","]}

FractionExample ==
    TsText(2015, 2, 18, 23, 59, 59,
           Bytes(<<".", "2", "3", "4", "5", "6", "7", "+", "0", "5", ":", "0", "0">>))

RefTimeWritten(b) ==
    /\ RefHourMinuteWritten(b)
    /\ RefHour(b, 0) <= 23
    /\ RefMinute(b, 0) <= 59
    /\ (Len(b) > 16 /\ At(b, 16) = Ord[":"]) =>
         /\ RefSecondWritten(b)
         /\ RefSecond(b, 0) <= 59
         /\ (Len(b) > 19 /\ At(b, 19) \in {Ord["."], Ord[","]}) =>
              RefDigitRun(b, 20) \in 1..9

\* The index after the time of day, where the offset begins
RefTimeEnd(b) ==
    IF ~(Len(b) > 16 /\ At(b, 16) = Ord[":"]) THEN 16
    ELSE IF ~(Len(b) > 19 /\ At(b, 19) \in {Ord["."], Ord[","]}) THEN 19
    ELSE 20 + RefDigitRun(b, 20)

\* The sign written at index p: <<sign, index after it>>, <<0, p>> if none
RefSign(b, p) ==
    IF p >= Len(b) THEN <<0, p>>
    ELSE IF At(b, p) = Ord["+"] THEN <<1, p + 1>>
    ELSE IF At(b, p) = Ord["-"] THEN <<-1, p + 1>>
    ELSE IF p + 2 < Len(b) /\ SubSeq(b, p + 1, p + 3) = <<226, 136, 146>>
         THEN <<-1, p + 3>>
    ELSE <<0, p>>

\* HH and MM written from index q, as HH:MM or HHMM:
\* <<HH, MM, index after them>>, <<>> when not so written
RefHHMM(b, q) ==
    IF q + 4 <= Len(b) /\ ~RefNonDigit(b, {q, q + 1, q + 2, q + 3})
    THEN <<RefValue(SubSeq(b, q + 1, q + 2)), RefValue(SubSeq(b, q + 3, q + 4)), q + 4>>
    ELSE IF q + 5 <= Len(b) /\ At(b, q + 2) = Ord[":"]
            /\ ~RefNonDigit(b, {q, q + 1, q + 3, q + 4})
    THEN <<RefValue(SubSeq(b, q + 1, q + 2)), RefValue(SubSeq(b, q + 4, q + 5)), q + 5>>
    ELSE <<>>

\* C14: in parse_timestamp_rfc3339 the offset is 0 for 'Z' or 'z'; after
\* '+', '-' or U+2212 (negative), HH and ':MM' or 'MM' give
\* sign * (HH*3600 + MM*60) seconds; MM >= 60 fails with OutOfRangeTzMinute,
\* a magnitude of 86400 or more with OutOfRangeTimezone, and any other byte
\* where the sign is to be with InvalidCharTzSign.
C14_Offset ==
    (RefTimeDecided /\ RefTimeWritten(buf) /\ RefTimeEnd(buf) < Len(buf))
    => LET p == RefTimeEnd(buf)
           sg == RefSign(buf, p)
           hm == RefHHMM(buf, sg[2])
       IN
       IF At(buf, p) \in {Ord["Z"], Ord["z"]}
       THEN /\ RefTimeOk => RefZoneHeld = 0
            /\ Len(buf) = p + 1 => RefTimeOk
       ELSE IF sg[1] = 0 THEN RefTimeRefused("InvalidCharTzSign")
       ELSE hm # <<>> =>
            IF hm[2] >= 60 THEN RefTimeRefused("OutOfRangeTzMinute")
            ELSE IF hm[1] * 3600 + hm[2] * 60 >= 86400
                 THEN RefTimeRefused("OutOfRangeTimezone")
            ELSE /\ RefTimeOk => RefZoneHeld = sg[1] * (hm[1] * 3600 + hm[2] * 60)
                 /\ Len(buf) = hm[3] => RefTimeOk

\* U+2212 and 05:00 after the seconds: five hours west
C14_Witness ==
    /\ call = "parse_timestamp_rfc3339"
    /\ buf = TsText(2015, 2, 18, 23, 16, 9,
                    MinusSign \o Bytes(<<"0", "5", ":", "0", "0">>))
    /\ pc = "done"
    /\ outcome = "ok"
    /\ message.timestamp[1].offset = -18000

(***************************************************************************)
(* C15                                                                     *)
(***************************************************************************)

\* The index after an offset well written at index p: 'Z', 'z', or a sign
\* with HH and MM that give less than 24 hours; -1 when there is none
RefOffsetEnd(b, p) ==
    IF p >= Len(b) THEN -1
    ELSE IF At(b, p) \in {Ord["Z"], Ord["z"]} THEN p + 1
    ELSE LET sg == RefSign(b, p)
             hm == RefHHMM(b, sg[2])
         IN IF sg[1] # 0 /\ hm # <<>> /\ hm[2] < 60
               /\ hm[1] * 3600 + hm[2] * 60 < 86400
            THEN hm[3] ELSE -1

\* C15: parse_timestamp_rfc3339 fails with ExtraCharacters when a byte is
\* left after the time and the offset, and returns a timestamp only with
\* the cursor at the end of the buffer.
C15_NoTrailingBytes ==
    /\ (/\ RefTimeDecided
        /\ RefTimeWritten(buf)
        /\ RefOffsetEnd(buf, RefTimeEnd(buf)) # -1
        /\ RefOffsetEnd(buf, RefTimeEnd(buf)) < Len(buf))
       => RefTimeRefused("ExtraCharacters")
    /\ RefTimeOk => offset = Len(buf)
    /\ (call = "parse_timestamp_rfc3339" /\ outcome = "ok") =>
         /\ offset = Len(buf)
         /\ RefTimeWritten(buf) =>
              \/ RefTimeEnd(buf) = Len(buf)
              \/ RefOffsetEnd(buf, RefTimeEnd(buf)) = Len(buf)

\* 'x' after +05:00 is refused
C15_Witness ==
    /\ call = "parse_timestamp_rfc3339"
    /\ buf = SubSeq(ReplaceBase, 1, 19)
             \o Bytes(<<"+", "0", "5", ":", "0", "0", "x">>)
    /\ RefTimeRefused("ExtraCharacters")
    /\ offset = Len(buf) - 1

(***************************************************************************)
(* C16                                                                     *)
(***************************************************************************)

\* The signed 32-bit integer a text writes in decimal, <<n>>, or <<>> when
\* it writes none (runs of more than ten digits are taken to be too large)
RefI32(p) ==
    IF Len(p) = 0 THEN <<>>
    ELSE
        LET neg == p[1] = Ord["-"]
            ds == IF p[1] \in {Ord["+"], Ord["-"]} THEN Tail(p) ELSE p
            hi == RefValue(SubSeq(ds, 1, Len(ds) - 1))
            lo == ds[Len(ds)] - 48
        IN
        IF Len(ds) = 0 \/ Len(ds) > 10 \/ ~RefAllDigits(ds) THEN <<>>
        ELSE IF hi > 214748364 \/ (hi = 214748364 /\ lo > (IF neg THEN 8 ELSE 7))
             THEN <<>>
        ELSE IF neg THEN <<0 - hi * 10 - lo>> ELSE <<hi * 10 + lo>>

\* What a PROCID text decodes to
RefProcId(p) ==
    IF p = Bytes(<<"-">>) THEN None
    ELSE IF RefI32(p) # <<>>
         THEN Some([variant |-> "PID", pid |-> RefI32(p)[1], name |-> <<>>])
    ELSE Some([variant |-> "Name", pid |-> 0, name |-> p])

\* The PROCID of a message that begins with ProcIdHead
RefProcIdText(b) ==
    SubSeq(b, Len(ProcIdHead) + 1, RefFind(b, Len(ProcIdHead), 32))

\* C16: a PROCID of one or more characters other than '-' alone is
\* ProcId::PID(n) when it writes a signed 32-bit decimal integer n and
\* ProcId::Name of its text otherwise, and the message parses.
C16_ProcIdPidOrName ==
    (/\ call = "parse_message"
     /\ Finished
     /\ Len(buf) > Len(ProcIdHead)
     /\ SubSeq(buf, 1, Len(ProcIdHead)) = ProcIdHead
     /\ Len(RefProcIdText(buf)) > 0
     /\ SubSeq(buf, RefFind(buf, Len(ProcIdHead), 32) + 1, Len(buf))
          = Bytes(<<" ", "-", " ", "-">>))
    => /\ outcome = "ok"
       /\ message.procid = RefProcId(RefProcIdText(buf))

(***************************************************************************)
(* C17                                                                     *)
(***************************************************************************)

\* Each message of SdListInputs with the elements and the tail it writes
RefSdCases ==
    {<<SdHead \o WriteElements(es) \o t, es, t>> : es \in SdLists, t \in SdAfter}

\* The elements and the tail message b was written from
RefSdWritten(b) == {<<c[2], c[3]>> : c \in {d \in RefSdCases : d[1] = b}}

\* What is left for msg of the text after the structured data
RefMsg(t) == IF Len(t) > 0 /\ t[1] = 32 THEN Tail(t) ELSE t

\* C17: k >= 1 groups '[...]' side by side give exactly the k elements
\* written, in order, repeated ones kept, each with its parameters in
\* order; the elements end at the end of the input or at a space, and any
\* other byte than '[' after a ']' makes parse_message fail.
C17_AdjacentElements ==
    (/\ call = "parse_message"
     /\ Finished
     /\ Len(buf) > Len(SdHead)
     /\ SubSeq(buf, 1, Len(SdHead) + 1) = SdHead \o Bytes(<<"[">>))
    => \A c \in RefSdWritten(buf) :
         IF Len(c[2]) = 0 \/ c[2][1] = 32
         THEN /\ outcome = "ok"
              /\ message.structured_data = c[1]
              /\ message.msg = RefMsg(c[2])
         ELSE /\ pc = "structured_data"
              /\ outcome = "err"
              /\ error = <<"ExpectedChar", Ord["["]>>
              /\ message = NoMessage

\* Three elements, the first written twice, and a msg that begins with '['
C17_Witness ==
    /\ call = "parse_message"
    /\ pc = "done"
    /\ outcome = "ok"
    /\ Len(message.structured_data) = 3
    /\ message.structured_data[1] = message.structured_data[2]
    /\ message.structured_data[3] # message.structured_data[1]
    /\ RefSdWritten(buf) # {}
    /\ message.msg = Bytes(<<"[", "a", " ", "x", "=", "\"", "1", "\"", "]", " ", "m">>)

(***************************************************************************)
(* C18                                                                     *)
(***************************************************************************)

\* The value of test_sd_with_escaped_quote: val, a backslash, '"', ue
EscapedValue == Bytes(<<"v", "a", "l", "\\", "\"", "u", "e">>)

EscapedElement ==
    Bytes(<<"[", "m", "e", "t", "a", " ", "k", "e", "y", "=", "\"">>)
    \o EscapedValue \o Bytes(<<"\"", "]">>)

\* C18: a backslash in a parameter value escapes the next character, so
\* '[meta key="val\"ue"]' parses to one parameter with key 'key' and the
\* seven raw characters val\"ue as its value.
C18_EscapedQuote ==
    (/\ call = "parse_message"
     /\ Finished
     /\ \E t \in MsgTails : buf = SdHead \o EscapedElement \o t)
    => /\ outcome = "ok"
       /\ message.structured_data =
            <<StructuredElement(Bytes(<<"m", "e", "t", "a">>),
                                <<<<Bytes(<<"k", "e", "y">>), EscapedValue>>>>)>>

(***************************************************************************)
(* C19                                                                     *)
(***************************************************************************)

\* Each message of SdBareInputs with the elements and the tail it writes
RefBareCases ==
    {<<SdHead \o WriteElements(es) \o t, es, t>> :
        es \in SdBareLists,
        t \in {Bytes(<<>>), Bytes(<<" ">>), Bytes(<<" ", "q", "w", "e", "r", "t", "y">>)}}

\* C19: '[]' is an element with an empty id and no parameters and '[id]'
\* an element with that id and no parameters, wherever they stand among
\* elements side by side, as in '[empty][non_empty x="1"]' and
\* '[non_empty x="1"][empty]'.
C19_ElementWithoutParams ==
    (/\ call = "parse_message"
     /\ Finished
     /\ Len(buf) > Len(SdHead)
     /\ SubSeq(buf, 1, Len(SdHead) + 1) = SdHead \o Bytes(<<"[">>))
    => \A c \in {d \in RefBareCases : d[1] = buf} :
         /\ outcome = "ok"
         /\ message.structured_data = c[2]
         /\ message.msg = RefMsg(c[3])

\* '[non_empty x="1"][][empty] qwerty'
C19_Witness ==
    /\ call = "parse_message"
    /\ pc = "done"
    /\ outcome = "ok"
    /\ \E d \in RefBareCases : d[1] = buf
    /\ Len(message.structured_data) = 3
    /\ message.structured_data[1].params # <<>>
    /\ message.structured_data[2] = StructuredElement(<<>>, <<>>)
    /\ message.structured_data[3] =
         StructuredElement(Bytes(<<"e", "m", "p", "t", "y">>), <<>>)
    /\ message.msg = Bytes(<<"q", "w", "e", "r", "t", "y">>)

(***************************************************************************)
(* C20                                                                     *)
(***************************************************************************)

\* The error each malformed element is to give
RefMalformed ==
    { <<Bytes(<<"[", "i", "n", "c", "o", "r", "r", "e", "c", "t", " ", "x", "]">>), <<"ExpectedChar", Ord["="]>>>>,
      <<Bytes(<<"[", "i", "n", "c", "o", "r", "r", "e", "c", "t", " ", "x", "=", "\"", "1", "\"", " ", "y", "]">>), <<"ExpectedChar", Ord["="]>>>>,
      <<Bytes(<<"[", "i", "n", "c", "o", "r", "r", "e", "c", "t", " ", "x", "=", "]">>), <<"ExpectedChar", Ord["\""]>>>>,
      <<Bytes(<<"[", "i", "n", "c", "o", "r", "r", "e", "c", "t", " ", "x", "=", "1", "]">>), <<"ExpectedChar", Ord["\""]>>>>,
      <<Bytes(<<"[", "i", "n", "c", "o", "r", "r", "e", "c", "t", " ", "x", "=", "\"", "1", "\"", "y", "]">>), <<"InvalidStructuredData">>>>,
      <<Bytes(<<"[", "i", "n", "c", "o", "r", "r", "e", "c", "t", " ", "x", "=", "\"", "1", "\"", "=", "\"", "2", "\"", "]">>), <<"InvalidStructuredData">>>> }

\* Each message of SdMalformedInputs with the error it is to give
RefMalformedCases ==
    {<<SdHead \o WriteElements(es) \o m[1] \o t, m[2]>> :
        es \in {<<>>} \cup [1..1 -> SdElements],
        m \in RefMalformed,
        t \in {Bytes(<<>>), Bytes(<<" ", "m", "s", "g">>), Bytes(<<"[", "b", " ", "y", "=", "\"", "2", "\"", "]", " ", "m", "s", "g">>)}}

RefSdGood ==
    {Bytes(<<"-">>)}
    \cup {WriteElements(es) : es \in SdLists \cup SdBareLists}

\* What may follow the structured data of a message that parses
RefMsgTails ==
    {t \in MsgTails \cup SdAfter : Len(t) = 0 \/ t[1] = 32}
    \cup {Bytes(<<" ", "q", "w", "e", "r", "t", "y">>)}

\* Each such message with the text that follows its structured data
RefMsgCases == {<<SdHead \o sd \o t, t>> : sd \in RefSdGood, t \in RefMsgTails}

\* C21: msg is the input suffix after the structured data and after at most
\* one space: empty when the input ends with the structured data, and a
\* second leading space or any later byte is kept unchanged.
C21_MsgIsTheRest ==
    (/\ call = "parse_message"
     /\ Finished
     /\ Len(buf) > Len(SdHead)
     /\ SubSeq(buf, 1, Len(SdHead)) = SdHead)
    => \A c \in {d \in RefMsgCases : d[1] = buf} :
         /\ outcome = "ok"
         /\ message.msg = RefMsg(c[2])
         /\ message.msg = SubSeq(buf, Len(buf) - Len(RefMsg(c[2])) + 1, Len(buf))
         /\ offset = Len(buf) - Len(message.msg)

\* NIL structured data and then two spaces: the second one begins msg
C21_Witness ==
    /\ call = "parse_message"
    /\ pc = "done"
    /\ outcome = "ok"
    /\ buf = SdHead \o Bytes(<<"-", " ", " ", "t", "w", "o", " ", "s", "p", "a", "c", "e", "s">>)
    /\ \E d \in RefMsgCases : d[1] = buf
    /\ message.msg = Bytes(<<" ", "t", "w", "o", " ", "s", "p", "a", "c", "e", "s">>)

(***************************************************************************)
(* C22                                                                     *)
(***************************************************************************)

\* How many times p stands in the list l
RefCount(l, p) == Cardinality({i \in 1..Len(l) : l[i] = p})

\* The two lists hold the same pairs the same number of times
RefSameMultiset(l1, l2) ==
    \A p \in {l1[i] : i \in 1..Len(l1)} \cup {l2[i] : i \in 1..Len(l2)} :
        RefCount(l1, p) = RefCount(l2, p)

\* C22: two StructuredElements are equal iff their ids are equal and their
\* parameter lists are equal as multisets of (key, value) pairs, whatever
\* the order; with lists of different lengths they are never equal.
C22_EqualityIsMultisetEquality ==
    (call = "eq" /\ pc = "done")
    => /\ message.result =
            Some(/\ message.self.id = message.other.id
                 /\ RefSameMultiset(message.self.params, message.other.params))
       /\ (Len(message.self.params) # Len(message.other.params)
             => message.result = Some(FALSE))

(***************************************************************************)
(* C23                                                                     *)
(***************************************************************************)

\* Where the structured data of TruncBase begins, and the ']' of its two
\* elements
RefTruncSd == RefFind(TruncBase, 0, Ord["["])
RefTruncClose1 == RefFind(TruncBase, RefTruncSd, Ord["]"])
RefTruncClose2 == RefFind(TruncBase, RefTruncClose1 + 1, Ord["]"])

\* The first n bytes of TruncBase end inside or right after a header field
RefCutHeader(n) == n <= RefTruncSd

\* The first n bytes of TruncBase end inside a structured-data element
RefCutElement(n) ==
    \/ n > RefTruncSd /\ n <= RefTruncClose1
    \/ n > RefTruncClose1 + 1 /\ n <= RefTruncClose2

\* C23: for an input that ends before all fields up to STRUCTURED-DATA have
\* been read (a proper prefix of a valid message cut inside or right after
\* a header field or inside a structured-data element) parse_message
\* returns an error, UnexpectedEndOfInput for a cut header; no byte at an
\* index at or past the buffer length is read.
C23_TruncatedInputIsAnError ==
    (/\ call = "parse_message"
     /\ Finished)
    => \A n \in 0..(Len(TruncBase) - 1) :
         (buf = SubSeq(TruncBase, 1, n) /\ (RefCutHeader(n) \/ RefCutElement(n)))
         => /\ outcome = "err"
            /\ RefCutHeader(n) => error = <<"UnexpectedEndOfInput">>

(***************************************************************************)
(* C24                                                                     *)
(***************************************************************************)

\* The delimiters parse_message can be waiting for in each field
RefExpectedIn(field) ==
    CASE field = "pri" -> {Ord["<"], Ord[">"]}
      [] field = "structured_data" -> {Ord["["], Ord["="], Ord["\""]}
      [] OTHER -> {}

\* C24: every ExpectedChar(c) returned by parse_message carries the
\* character that was expected at the failing position ('<', '>', '[', '='
\* or '"'), not the character found in the input.
C24_ExpectedCharIsTheExpected ==
    (/\ call = "parse_message"
     /\ outcome = "err"
     /\ error[1] = "ExpectedChar")
    => error[2] \in RefExpectedIn(pc)

(***************************************************************************)
(* C25                                                                     *)
(***************************************************************************)

\* Instant u as a UTC date and time
RefUtc(u, nanos) ==
    [year |-> u[1], month |-> u[2], day |-> u[3], hour |-> u[4],
     minute |-> u[5], second |-> u[6], nanos |-> nanos]

\* Each text of InstantTexts with the instant and the offset it writes
RefInstantCases ==
    {<<InstantText(u, secs), u, secs>> : u \in Instants, secs \in InstantOffsets}
    \cup {<<ZuluText(u, z), u, 0>> : u \in Instants, z \in ZuluZones}

\* Timestamps of RFC 3339 section 5.8 and of test_with_time_offset_nonzero
\* with the UTC date and time they denote
RefInstantExamples ==
    { <<Bytes(<<"2", "0", "1", "5", "-", "0", "1", "-", "0", "1", "T", "1", "8", ":", "5", "0", ":", "0", "0", "-", "0", "4", ":", "0", "0">>),
        RefUtc(<<2015, 1, 1, 22, 50, 0>>, 0)>>,
      <<Bytes(<<"2", "0", "1", "5", "-", "0", "1", "-", "0", "1", "T", "2", "2", ":", "5", "0", ":", "0", "0", "Z">>),
        RefUtc(<<2015, 1, 1, 22, 50, 0>>, 0)>>,
      <<Bytes(<<"2", "0", "1", "9", "-", "0", "1", "-", "2", "0", "T", "0", "0", ":", "4", "6", ":", "3", "9", "+", "0", "5", ":", "4", "5">>),
        RefUtc(<<2019, 1, 19, 19, 1, 39>>, 0)>>,
      <<Bytes(<<"2", "0", "1", "9", "-", "0", "1", "-", "1", "9", "T", "1", "1", ":", "0", "1", ":", "3", "9", "-", "0", "8", ":", "0", "0">>),
        RefUtc(<<2019, 1, 19, 19, 1, 39>>, 0)>>,
      <<Bytes(<<"1", "9", "9", "6", "-", "1", "2", "-", "1", "9", "T", "1", "6", ":", "3", "9", ":", "5", "7", "-", "0", "8", ":", "0", "0">>),
        RefUtc(<<1996, 12, 20, 0, 39, 57>>, 0)>>,
      <<Bytes(<<"1", "9", "9", "0", "-", "1", "2", "-", "3", "1", "T", "1", "5", ":", "5", "9", ":", "5", "9", "-", "0", "8", ":", "0", "0">>),
        RefUtc(<<1990, 12, 31, 23, 59, 59>>, 0)>>,
      <<Bytes(<<"1", "9", "9", "0", "-", "1", "2", "-", "3", "1", "T", "2", "3", ":", "5", "9", ":", "5", "9", "Z">>),
        RefUtc(<<1990, 12, 31, 23, 59, 59>>, 0)>>,
      <<Bytes(<<"1", "9", "3", "7", "-", "0", "1", "-", "0", "1", "T", "1", "2", ":", "0", "0", ":", "2", "7", ".", "8", "7", "+", "0", "0", ":", "2", "0">>),
        RefUtc(<<1937, 1, 1, 11, 40, 27>>, 870000000)>>,
      <<Bytes(<<"1", "9", "8", "5", "-", "0", "4", "-", "1", "2", "T", "2", "3", ":", "2", "0", ":", "5", "0", ".", "5", "2", "Z">>),
        RefUtc(<<1985, 4, 12, 23, 20, 50>>, 520000000)>> }

\* The timestamp message of TimestampInputs with text ts
RefTimestampMessage(ts) ==
    Bytes(<<"<", "1", ">", "1", " ">>) \o ts
    \o Bytes(<<" ", "h", "o", "s", "t", " ", "-", " ", "-", " ", "-", " ", "-">>)

\* The instants text b is to decode to
RefInstantOf(b) ==
    {RefUtc(c[2], 0) : c \in {d \in RefInstantCases : d[1] = b}}
    \cup {c[2] : c \in {d \in RefInstantExamples : d[1] = b}}

\* The instants the timestamp of message b is to decode to
RefInstantOfMessage(b) ==
    {RefUtc(c[2], 0) :
        c \in {d \in RefInstantCases : RefTimestampMessage(d[1]) = b}}
    \cup {c[2] : c \in {d \in RefInstantExamples : RefTimestampMessage(d[1]) = b}}

RefDigit(c) == IF c = 32 THEN 0 ELSE c - 48

\* ds read one character at a time, most significant first
RECURSIVE RefAccumulate(_)
RefAccumulate(ds) ==
    IF Len(ds) = 0 THEN 0
    ELSE 10 * RefAccumulate(SubSeq(ds, 1, Len(ds) - 1)) + RefDigit(ds[Len(ds)])

\* ds is digits, after spaces if any, and ends with a digit
RefPaddedDecimal(ds) ==
    /\ \A i \in 1..Len(ds) : ds[i] = 32 \/ ds[i] \in 48..57
    /\ \A i \in 1..(Len(ds) - 1) : ds[i + 1] = 32 => ds[i] = 32
    /\ ds[Len(ds)] # 32

\* C26: for ASCII digit bytes convert_2_digits returns 10*d1 + d2 and
\* convert_4_digits returns 1000*d1 + 100*d2 + 10*d3 + d4, a leading space
\* counting as 0: the packed decoding equals reading the digits one by one,
\* no lane carrying into another.
C26_ConvertDigits ==
    (/\ call = "convert_digits"
     /\ pc = "done"
     /\ RefPaddedDecimal(buf))
    => /\ message = Some(RefAccumulate(buf))
       /\ Len(buf) = 2 =>
            message[1] = 10 * RefDigit(buf[1]) + RefDigit(buf[2])
       /\ Len(buf) = 4 =>
            message[1] = 1000 * RefDigit(buf[1]) + 100 * RefDigit(buf[2])
                         + 10 * RefDigit(buf[3]) + RefDigit(buf[4])

\* ' 999' is 999: every lane at its largest after a leading space
C26_Witness ==
    /\ call = "convert_digits"
    /\ pc = "done"
    /\ buf = Bytes(<<" ", "9", "9", "9">>)
    /\ RefPaddedDecimal(buf)
    /\ message = Some(999)

(***************************************************************************)
(* C27                                                                     *)
(***************************************************************************)

\* The fields in the order of RFC 5424, and the end of the call
RefFieldOrder ==
    <<"pri", "version", "timestamp", "hostname", "appname", "procid", "msgid",
      "structured_data", "msg", "done">>

\* The place of field f in the order
RefFieldIndex(f) == CHOOSE i \in 1..Len(RefFieldOrder) : RefFieldOrder[i] = f

\* C27: a call of parse_message visits PRI, VERSION, TIMESTAMP, HOSTNAME,
\* APP-NAME, PROCID, MSGID, STRUCTURED-DATA and MSG in this order and skips
\* none; from one step to the next the cursor never goes back and never
\* passes the end of the buffer; the call stops at the first field that
\* fails.
C27_FieldOrder ==
    [][call = "parse_message" =>
         /\ outcome = "running"
         /\ pc # "done"
         /\ offset' >= offset
         /\ offset' <= Len(buf)
         /\ IF outcome' \in {"running", "ok"}
            THEN /\ RefFieldIndex(pc') = RefFieldIndex(pc) + 1
                 /\ (outcome' = "ok") <=> (pc' = "done")
            ELSE /\ pc' = pc
                 /\ message' = NoMessage]_vars

\* The whole of a message with every field written has been read, one
\* field after the other
C27_Witness ==
    /\ call = "parse_message"
    /\ pc = "done"
    /\ outcome = "ok"
    /\ buf = TruncBase
    /\ mark = RefFind(buf, RefTruncClose2, 32)
    /\ offset = mark + 1
    /\ \A f \in {"hostname", "appname", "procid", "msgid"} : message[f] # None
    /\ Len(message.structured_data) = 2
    /\ message.msg = Bytes(<<"m", "s", "g">>)

(***************************************************************************)
(* C28                                                                     *)
(***************************************************************************)

\* s is one byte or more and holds no space
RefToken(s) == Len(s) > 0 /\ \A i \in 1..Len(s) : s[i] # 32

\* C28: when parse_message succeeds, each of HOSTNAME, APP-NAME, PROCID and
\* MSGID that is present is a non-empty run of input bytes without a space;
\* an empty field, two separator spaces in a row, is never Some("").
C28_NoEmptyField ==
    (/\ call = "parse_message"
     /\ pc = "done"
     /\ outcome = "ok")
    => /\ \A f \in {"hostname", "appname", "msgid"} :
             message[f] # None => RefToken(message[f][1])
       /\ (message.procid # None /\ message.procid[1].variant = "Name")
             => RefToken(message.procid[1].name)

(***************************************************************************)
(* C29                                                                     *)
(***************************************************************************)

\* C29: parse_timestamp_rfc3339 returns Ok or Err for every byte string of
\* every length: no slice or index goes past the end of the buffer, as when
\* the input ends right after hh:mm: or inside the offset, and neither
\* expect() on the calendar date and the time of day meets an invalid
\* value.
C29_NoPanic ==
    call = "parse_timestamp_rfc3339"
    => /\ outcome # "panic"
       /\ Finished => outcome \in {"ok", "err"}

(***************************************************************************)
(* C30                                                                     *)
(***************************************************************************)

\* b ends with its time of day: nothing stands where the offset begins
RefNoDesignator(b) ==
    /\ RefTimeWritten(b)
    /\ Len(b) = RefTimeEnd(b)

\* C30: parse_timestamp_rfc3339 requires an offset designator: an input
\* that ends right after the time of day (after hh:mm, after hh:mm:ss or
\* after the fraction) with no 'Z', 'z' or signed offset is rejected with
\* an error, not accepted with offset 0.
C30_OffsetRequired ==
    (/\ call = "parse_timestamp_rfc3339"
     /\ Finished
     /\ RefNoDesignator(buf))
    => /\ outcome = "err"
       /\ message = NoMessage

====
